---- MODULE Spec2Model ----
(***************************************************************************)
(* Pro-Chat: the chat clients of the repository as one state machine.      *)
(*                                                                         *)
(* The repository holds several independent clients.  A behaviour runs one *)
(* of them, chosen in Init by the variable client:                         *)
(*   "app"     the single-conversation ProChat class       (src/app.js)    *)
(*   "store"   the conversation-store ProChat class (src/src/App.jsx:1178) *)
(*   "sidebar" the React sidebar App component      (src/src/App.jsx:3)    *)
(*   "multi"   the multi-provider ProChat class     (src/src/App.jsx:663)  *)
(*   "memory", "lastturn"  the sidebar component with Memory enabled,      *)
(*             with Context disabled                                       *)
(*   "voice"   the voice App component      (src/unnamed/part_000:1083)    *)
(*   "markdown" the markdown App component  (src/unnamed/part_000:412)     *)
(*   "nvim"    the Neovim plugin   (src/nvim-plugin/lua/pro-chat/init.lua) *)
(* Variables that two clients both have (isLoading, apiKey, status,        *)
(* messages) are shared: only one client runs in a behaviour.              *)
(*                                                                         *)
(* Text is a sequence of tokens.  User input is a sequence of one-char     *)
(* tokens so that String.trim is computed; provider replies and error      *)
(* messages are one-token texts.  A message is [role, content]; the        *)
(* timestamp field of a stored message is only ever rendered and is left   *)
(* out.  An absent value (null, a missing localStorage key) is <<>>.       *)
(***************************************************************************)
EXTENDS Integers, Sequences, FiniteSets, TLC

VARIABLES
    client,                 \* which client this behaviour runs
    now,                    \* the last value Date.now() returned
    storage,                \* localStorage
    apiKey,                 \* this.apiKey / apiKey state
    isLoading,              \* this.isLoading / isLoading state
    status,                 \* the status bar: [state, text]
    messages,               \* app: this.messages; sidebar: messages state
    conversations,          \* store: this.conversations, in key order
    currentConversationId,  \* store: this.currentConversationId
    chats,                  \* sidebar: chats state
    currentChatId,          \* sidebar: currentChatId state
    model,                  \* multi: this.model
    calls,                  \* provider calls that have not resolved yet
    timers,                 \* which kinds of setTimeout callback are pending
    last,                   \* how the last handler ended, if it was a sendMessage
                            \* that returned early; Done after any other handler
    nvim                    \* the Neovim plugin: its state table and the editor

vars == <<client, now, storage, apiKey, isLoading, status, messages,
          conversations, currentConversationId, chats, currentChatId,
          model, calls, timers, last, nvim>>

(* ----------------------------- bounds ---------------------------------- *)

\* Date.now() stays within 1..MaxClock.
MaxClock == 2
\* A send is accepted only while the client holds fewer messages; in the
\* sidebar clients, while the chats hold fewer user messages and at most
\* this many messages in all.
MaxMsgs == 1
\* The sidebar client holds at most this many chats.
MaxChats == 2
\* The Neovim plugin launches at most this many terminals, makes at most
\* this many splits and delivers at most this many texts.
MaxLaunches == 2
MaxSplits == 3
MaxSent == 2
\* The markdown client holds at most this many chats.
MaxMdChats == 3
\* In the markdown client Date.now() stays within 1..MaxMdClock.
MaxMdClock == 3
\* The multi-provider client accepts a send only while its transcript holds
\* fewer messages.
MaxHistory == 3

(* ------------------------------ text ----------------------------------- *)

Done == "done"

None == <<>>
Some(v) == <<v>>

IsSpace(c) == c = " "

RECURSIVE TrimStart(_)
TrimStart(s) ==
    IF s # <<>> /\ IsSpace(Head(s)) THEN TrimStart(Tail(s)) ELSE s

RECURSIVE TrimEnd(_)
TrimEnd(s) ==
    IF s # <<>> /\ IsSpace(s[Len(s)])
    THEN TrimEnd(SubSeq(s, 1, Len(s) - 1))
    ELSE s

\* No trimming at all (a faulty variant).
trimNot(s) == s

\* String.prototype.trim
trim(s) == TrimEnd(TrimStart(s))

\* What the user may have typed into the input box when a send is triggered.
InputValues == { <<>>, <<" ">>, <<" ", "a", " ">> }

\* What the user may have typed into the API-key field.
KeyInputs == { <<>>, <<" ">>, <<"k">> }

Msg(role, content) == [role |-> role, content |-> content]

Status(state, text) == [state |-> state, text |-> text]
Ready == Status("ready", <<"Ready">>)
Thinking == Status("loading", <<"Thinking...">>)
NeedKey == Status("error", <<"Please set your API key in settings">>)
SettingsSaved == Status("ready", <<"Settings saved!">>)

(* -------------------------- the provider call -------------------------- *)

\* What the network may answer: fetch rejects, or a response with a status
\* and a body.
Responses ==
    { [fetched |-> FALSE, ok |-> FALSE, status |-> 0, body |-> "none"],
      [fetched |-> TRUE, ok |-> TRUE, status |-> 200, body |-> "completion"],
      [fetched |-> TRUE, ok |-> TRUE, status |-> 200, body |-> "other_json"],
      [fetched |-> TRUE, ok |-> FALSE, status |-> 429, body |-> "error_envelope"] }

\* The non-2xx answers: the body is the error envelope of one of the
\* variants ({ error: { message } }, { message }, { base_resp: { status_msg } }),
\* JSON of another shape, or not JSON.
ErrorResponses ==
    { [fetched |-> TRUE, ok |-> FALSE, status |-> st, body |-> bd] :
        st \in {429, 500},
        bd \in {"error_envelope", "qwen_envelope", "minimax_envelope",
                "other_json", "not_json"} }

Returned(text) == [threw |-> FALSE, text |-> text]
Thrown(text) == [threw |-> TRUE, text |-> text]

\* The tail of callOpenAI / callAPI, from the fetch on: what the awaited call
\* returns or throws for a response.
callOpenAI(r) ==
    IF ~r.fetched THEN Thrown(<<"Failed to fetch">>)
    ELSE IF ~r.ok
    THEN IF r.body = "not_json" THEN Thrown(<<"Unexpected token">>)
         ELSE IF r.body = "error_envelope" THEN Thrown(<<"rate limited">>)
         ELSE Thrown(<<"API request failed">>)
    ELSE IF r.body = "not_json" THEN Thrown(<<"Unexpected token">>)
         ELSE IF r.body = "completion" THEN Returned(<<"hi">>)
         ELSE Thrown(<<"Cannot read properties of undefined">>)

ErrorText(text) == <<"Error: ">> \o text

\* The system message every client puts first into a request.
SystemPrompt == Msg("system", <<"You are a helpful AI assistant.">>)

\* ...msgs.map(msg => ({ role: msg.role, content: msg.content }))
RoleAndContent(msgs) ==
    [k \in 1..Len(msgs) |-> Msg(msgs[k].role, msgs[k].content)]

RemoveAt(s, i) == SubSeq(s, 1, i - 1) \o SubSeq(s, i + 1, Len(s))

(* ------------------------------- Init ---------------------------------- *)

EmptyStorage ==
    [openai_api_key |-> None, conversations |-> None,
     current_conversation_id |-> None, pro_chat_history |-> None,
     ai_api_key |-> None, ai_model |-> None,
     chat_history |-> None, openrouter_api_key |-> None]

\* timers.status: some callback of saveSettings' setTimeout is pending.  The
\* number of pending callbacks is not kept: after one has run, another may
\* or may not be left.
\* timers.retry: the setTimeout(() => sendMessage(), 100) of the sidebar
\* client is pending.
NoTimers == [ status |-> FALSE, retry |-> FALSE ]

\* The Neovim plugin after require("pro-chat"): state.buf, state.win and
\* state.chan are nil.  The editor side: winValid, the window state.win
\* names is valid; shows, the plugin buffer that window shows; others, the
\* number of other windows; bufs, the valid plugin buffers; jobs, the
\* running pro-chat processes by channel; launched and windows, how many
\* terminals were launched and splits made; sent, the texts delivered, each
\* with its channel; note, the last vim.notify message.
NoNvim ==
    [buf |-> None, win |-> None, chan |-> None,
     winValid |-> FALSE, shows |-> None, others |-> 1,
     bufs |-> {}, jobs |-> {}, launched |-> 0, windows |-> 0,
     sent |-> <<>>, note |-> "none"]

storeVars == <<conversations, currentConversationId>>
sidebarVars == <<chats, currentChatId>>

\* The values Date.now() may return next: the clock never runs backwards and
\* two reads may fall into the same millisecond.
ClockReads == { t \in {now, now + 1} : t <= MaxClock }

\* A client that sends without an API key (a faulty variant).
NoApiKeyNever == FALSE

\* !this.apiKey / !apiKey: the missing-key check of sendMessage.
NoApiKey == apiKey = <<>>

\* A sendMessage whose finally block is missing (a faulty variant).
FinallySkipped == isLoading' = isLoading

\* The finally block of sendMessage.
Finally == isLoading' = FALSE

(* --------------------- src/app.js: class ProChat ----------------------- *)

\* A sendMessage without the isLoading guard (a faulty variant).
AppBusyNever == FALSE

\* The isLoading guard of sendMessage.
AppBusy == isLoading

\* An addMessage that does not record the message (a faulty variant).
addMessageLost(role, content) == messages

\* addMessage(role, content): the history part.
addMessage(role, content) == Append(messages, Msg(role, content))

AppSaveSettings(input) ==
    /\ client = "app"
    /\ apiKey' = trim(input)
    /\ storage' = IF apiKey' # <<>>
                  THEN [storage EXCEPT !.openai_api_key = Some(apiKey')]
                  ELSE storage
    /\ status' = SettingsSaved
    /\ timers' = [timers EXCEPT !.status = TRUE]
    /\ last' = Done
    /\ UNCHANGED <<client, nvim, model, now, isLoading, messages, calls, storeVars, sidebarVars>>

\* The callback saveSettings hands to setTimeout.
AppStatusTimer ==
    /\ client = "app"
    /\ timers.status
    /\ \E more \in BOOLEAN : timers' = [timers EXCEPT !.status = more]
    /\ status' = Ready
    /\ last' = Done
    /\ UNCHANGED <<client, nvim, model, now, storage, apiKey, isLoading, messages, calls,
                   storeVars, sidebarVars>>

\* The messages list callOpenAI(message) puts into the request body (lines
\* 231-239), history being this.messages when it is called.
AppRequest(history, message) ==
    <<SystemPrompt>> \o RoleAndContent(history) \o <<Msg("user", message)>>

\* sendMessage up to its await.
AppSendMessage(input) ==
    /\ client = "app"
    /\ LET message == trim(input) IN
       IF message = <<>> \/ AppBusy
       THEN /\ last' = (IF message = <<>> THEN "send:empty" ELSE "send:busy")
            /\ UNCHANGED <<status, messages, isLoading, calls>>
       ELSE IF NoApiKey
       THEN /\ status' = NeedKey
            /\ last' = "send:nokey"
            /\ UNCHANGED <<messages, isLoading, calls>>
       ELSE /\ Len(messages) < MaxMsgs
            /\ messages' = addMessage("user", message)
            /\ isLoading' = TRUE
            /\ status' = Thinking
            /\ calls' = Append(calls, [conv |-> None,
                                        request |-> AppRequest(messages', message)])
            /\ last' = Done
    /\ UNCHANGED <<client, nvim, model, now, storage, apiKey, timers, storeVars, sidebarVars>>

\* sendMessage from its await on: the try/catch/finally around callOpenAI.
AppResolve(i, r) ==
    /\ client = "app"
    /\ i \in 1..Len(calls)
    /\ LET res == callOpenAI(r) IN
       IF ~res.threw
       THEN /\ messages' = addMessage("assistant", res.text)
            /\ status' = Ready
            /\ last' = Done
       ELSE /\ messages' = addMessage("assistant", ErrorText(res.text))
            /\ status' = Status("error", ErrorText(res.text))
            /\ last' = Done
    /\ Finally
    /\ calls' = RemoveAt(calls, i)
    /\ UNCHANGED <<client, nvim, model, now, storage, apiKey, timers, storeVars, sidebarVars>>

AppClearChat ==
    /\ client = "app"
    /\ messages' = <<>>
    /\ status' = Ready
    /\ last' = Done
    /\ UNCHANGED <<client, nvim, model, now, storage, apiKey, isLoading, calls, timers,
                   storeVars, sidebarVars>>

\* A page reload: the constructor and init run again on what localStorage
\* holds; pending calls and timers die with the old page.
AppReload ==
    /\ client = "app"
    /\ messages' = <<>>
    /\ apiKey' = (IF storage.openai_api_key # None
                  THEN storage.openai_api_key[1] ELSE <<>>)
    /\ isLoading' = FALSE
    /\ status' = Ready
    /\ calls' = <<>>
    /\ timers' = NoTimers
    /\ last' = Done
    /\ UNCHANGED <<client, nvim, model, now, storage, storeVars, sidebarVars>>

AppNext ==
    \/ \E input \in KeyInputs : AppSaveSettings(input)
    \/ AppStatusTimer
    \/ \E input \in InputValues : AppSendMessage(input)
    \/ \E i \in 1..Len(calls), r \in Responses : AppResolve(i, r)
    \/ AppClearChat
    \/ AppReload

(* ------------- src/src/App.jsx: class ProChat with providers ----------- *)

\* this.providers in key order (lines 671-714): key, models and type of
\* every entry.
providers ==
    << [key |-> "grok", type |-> "openai-compatible",
        models |-> <<"grok-beta", "grok-vision-beta">>],
       [key |-> "claude", type |-> "anthropic",
        models |-> <<"claude-3-5-sonnet-20241022", "claude-3-5-haiku-20241022",
                     "claude-3-opus-20240229">>],
       [key |-> "kimi", type |-> "openai-compatible",
        models |-> <<"moonshot-v1-8k", "moonshot-v1-32k", "moonshot-v1-128k">>],
       [key |-> "minimax", type |-> "minimax",
        models |-> <<"abab6.5-chat", "abab6.5s-chat", "abab5.5-chat">>],
       [key |-> "qwen", type |-> "qwen",
        models |-> <<"qwen-turbo", "qwen-plus", "qwen-max">>],
       [key |-> "deepseek", type |-> "openai-compatible",
        models |-> <<"deepseek-chat", "deepseek-coder">>],
       [key |-> "gemini", type |-> "gemini",
        models |-> <<"gemini-1.5-pro", "gemini-1.5-flash", "gemini-1.0-pro">>] >>

\* localStorage.getItem('ai_model') || 'grok-beta'
DefaultModel == "grok-beta"

\* What the model select, or a stored 'ai_model', may hold: listed models of
\* several providers, a listed model in other letter case, an unlisted one.
ModelValues ==
    { "grok-beta", "claude-3-opus-20240229", "gemini-1.5-flash",
      "GROK-BETA", "gpt-4" }

\* String.prototype.toLowerCase on these names.
toLowerCase(m) == IF m = "GROK-BETA" THEN "grok-beta" ELSE m

\* Array.prototype.includes: strict equality.
includes(list, x) == \E k \in 1..Len(list) : list[k] = x

\* The Error getProviderForModel throws.
UnknownModel(m) == Thrown(<<"Unknown model: ", m>>)

\* A lookup that ignores letter case (a faulty variant).
getProviderForModelAnyCase(m) ==
    IF \E i \in 1..Len(providers) : includes(providers[i].models, toLowerCase(m))
    THEN [threw |-> FALSE,
          provider |-> providers[CHOOSE i \in 1..Len(providers) :
                          includes(providers[i].models, toLowerCase(m))]]
    ELSE UnknownModel(m)

\* A lookup that falls back to the first provider (a faulty variant).
getProviderForModelOrFirst(m) ==
    IF \E i \in 1..Len(providers) : includes(providers[i].models, m)
    THEN [threw |-> FALSE,
          provider |-> providers[CHOOSE i \in 1..Len(providers) :
                          /\ includes(providers[i].models, m)
                          /\ \A j \in 1..(i - 1) : ~includes(providers[j].models, m)]]
    ELSE [threw |-> FALSE, provider |-> providers[1]]

\* getProviderForModel(model): the loop over Object.entries(this.providers)
\* returns at the first entry whose models include the model.
getProviderForModel(m) ==
    IF \E i \in 1..Len(providers) : includes(providers[i].models, m)
    THEN [threw |-> FALSE,
          provider |-> providers[CHOOSE i \in 1..Len(providers) :
                          /\ includes(providers[i].models, m)
                          /\ \A j \in 1..(i - 1) : ~includes(providers[j].models, m)]]
    ELSE UnknownModel(m)

\* The messages list callAI(message) builds (lines 948-955), history being
\* this.messages when it is called.
callAIRequest(history, message) ==
    <<SystemPrompt>> \o RoleAndContent(history) \o <<Msg("user", message)>>

\* messages.find(m => m.role === role): the index of the first entry of
\* that role, 0 when there is none.
RECURSIVE FindRole(_, _)
FindRole(msgs, role) ==
    IF msgs = <<>> THEN 0
    ELSE IF Head(msgs).role = role THEN 1
    ELSE LET k == FindRole(Tail(msgs), role) IN IF k = 0 THEN 0 ELSE k + 1

\* A filter that keeps every entry (a faulty variant).
FilterNotRoleKeepsAll(msgs, role) == msgs

\* messages.filter(m => m.role !== role)
RECURSIVE FilterNotRole(_, _)
FilterNotRole(msgs, role) ==
    IF msgs = <<>> THEN <<>>
    ELSE IF Head(msgs).role = role THEN FilterNotRole(Tail(msgs), role)
    ELSE <<Head(msgs)>> \o FilterNotRole(Tail(msgs), role)

\* The request body callAnthropic(provider, messages) sends, m being
\* this.model.  JSON.stringify leaves a key out whose value is undefined: a
\* field is Some(value) when the body has the key and None when it has not.
callAnthropicBody(m, msgs) ==
    LET systemMessage == FindRole(msgs, "system")
        conversationMessages == FilterNotRole(msgs, "system")
    IN [model |-> Some(m),
        max_tokens |-> Some(2000),
        system |-> IF systemMessage # 0 THEN Some(msgs[systemMessage].content) ELSE None,
        messages |-> Some(conversationMessages)]

\* The body whose shape the error branch of a variant reads its message
\* from: error.error?.message, error.message (callQwen) and
\* error.base_resp?.status_msg (callMinimax).
EnvelopeOf(type) ==
    IF type = "qwen" THEN "qwen_envelope"
    ELSE IF type = "minimax" THEN "minimax_envelope"
    ELSE "error_envelope"

\* The tail of callOpenAICompatible, callAnthropic, callGemini, callQwen and
\* callMinimax, from the fetch on.  On a non-2xx response the body is parsed
\* with response.json(), which rejects when it is not JSON; the message is
\* the envelope's or `API request failed with status ${response.status}`.
callProvider(type, r) ==
    IF r.fetched /\ ~r.ok
    THEN IF r.body = "not_json" THEN Thrown(<<"Unexpected token">>)
         ELSE IF r.body = EnvelopeOf(type) THEN Thrown(<<"rate limited">>)
         ELSE Thrown(<<"API request failed with status ", r.status>>)
    ELSE callOpenAI(r)

\* The isLoading guard of sendMessage.
MultiBusy == isLoading

MultiSaveSettings(input, m) ==
    /\ client = "multi"
    /\ apiKey' = trim(input)
    /\ model' = m
    /\ storage' = [(IF apiKey' # <<>>
                    THEN [storage EXCEPT !.ai_api_key = Some(apiKey')]
                    ELSE storage) EXCEPT !.ai_model = Some(m)]
    /\ status' = SettingsSaved
    /\ timers' = [timers EXCEPT !.status = TRUE]
    /\ last' = Done
    /\ UNCHANGED <<client, nvim, now, isLoading, messages, calls, storeVars, sidebarVars>>

\* The callback saveSettings hands to setTimeout.
MultiStatusTimer ==
    /\ client = "multi"
    /\ timers.status
    /\ \E more \in BOOLEAN : timers' = [timers EXCEPT !.status = more]
    /\ status' = Ready
    /\ last' = Done
    /\ UNCHANGED <<client, nvim, model, now, storage, apiKey, isLoading, messages, calls,
                   storeVars, sidebarVars>>

\* sendMessage up to the await of a fetch; when callAI throws before it
\* fetches, the catch and finally blocks run before any other handler can.
MultiSendMessage(input) ==
    /\ client = "multi"
    /\ LET message == trim(input)
           found == getProviderForModel(model)
       IN
       IF message = <<>> \/ MultiBusy
       THEN /\ last' = (IF message = <<>> THEN "send:empty" ELSE "send:busy")
            /\ UNCHANGED <<status, messages, isLoading, calls>>
       ELSE IF NoApiKey
       THEN /\ status' = NeedKey
            /\ last' = "send:nokey"
            /\ UNCHANGED <<messages, isLoading, calls>>
       ELSE /\ Len(messages) < MaxHistory
            /\ IF found.threw
               THEN /\ messages' = Append(addMessage("user", message),
                                          Msg("assistant", ErrorText(found.text)))
                    /\ status' = Status("error", ErrorText(found.text))
                    /\ Finally
                    /\ calls' = calls
               ELSE /\ messages' = addMessage("user", message)
                    /\ isLoading' = TRUE
                    /\ status' = Thinking
                    /\ calls' = Append(calls,
                           [conv |-> None,
                            request |-> callAIRequest(messages', message),
                            provider |-> found.provider.key,
                            type |-> found.provider.type])
            /\ last' = Done
    /\ UNCHANGED <<client, nvim, model, now, storage, apiKey, timers, storeVars, sidebarVars>>

\* sendMessage from its await on: the try/catch/finally around callAI.
MultiResolve(i, r) ==
    /\ client = "multi"
    /\ i \in 1..Len(calls)
    /\ LET res == callProvider(calls[i].type, r) IN
       IF ~res.threw
       THEN /\ messages' = addMessage("assistant", res.text)
            /\ status' = Ready
            /\ last' = Done
       ELSE /\ messages' = addMessage("assistant", ErrorText(res.text))
            /\ status' = Status("error", ErrorText(res.text))
            /\ last' = Done
    /\ Finally
    /\ calls' = RemoveAt(calls, i)
    /\ UNCHANGED <<client, nvim, model, now, storage, apiKey, timers, storeVars, sidebarVars>>

MultiClearChat ==
    /\ client = "multi"
    /\ messages' = <<>>
    /\ status' = Ready
    /\ last' = Done
    /\ UNCHANGED <<client, nvim, model, now, storage, apiKey, isLoading, calls, timers,
                   storeVars, sidebarVars>>

\* A page reload: the constructor and init run again on what localStorage
\* holds; pending calls and timers die with the old page.
MultiReload ==
    /\ client = "multi"
    /\ messages' = <<>>
    /\ apiKey' = (IF storage.ai_api_key # None THEN storage.ai_api_key[1] ELSE <<>>)
    /\ model' = (IF storage.ai_model # None THEN storage.ai_model[1] ELSE DefaultModel)
    /\ isLoading' = FALSE
    /\ status' = Ready
    /\ calls' = <<>>
    /\ timers' = NoTimers
    /\ last' = Done
    /\ UNCHANGED <<client, nvim, now, storage, storeVars, sidebarVars>>

MultiNext ==
    \/ \E input \in KeyInputs, m \in ModelValues : MultiSaveSettings(input, m)
    \/ MultiStatusTimer
    \/ \E input \in InputValues : MultiSendMessage(input)
    \/ \E i \in 1..Len(calls), r \in Responses : MultiResolve(i, r)
    \/ MultiClearChat
    \/ MultiReload

(* ------------- src/src/App.jsx: class ProChat with conversations ------- *)

\* 'conv_' + Date.now()
ConvId(t) == <<"conv_", t>>

SentinelTitle == <<"New Conversation">>

\* The length the derived title is cut to.
TitleMax == 50

\* message.substring(0, 50) + (message.length > 50 ? '...' : '')
DerivedTitle(message) ==
    SubSeq(message, 1, IF Len(message) < TitleMax THEN Len(message) ELSE TitleMax)
        \o (IF Len(message) > TitleMax THEN <<".", ".", ".">> ELSE <<>>)

\* this.conversations is an object keyed by id; a sequence keeps the order
\* Object.keys / Object.values enumerate it in (insertion order).
IndexOf(convs, id) ==
    IF \E i \in 1..Len(convs) : convs[i].id = id
    THEN CHOOSE i \in 1..Len(convs) : convs[i].id = id
    ELSE 0

HasConv(convs, id) == IndexOf(convs, id) # 0

\* this.conversations[id] = conversation
PutConv(convs, conv) ==
    IF HasConv(convs, conv.id)
    THEN [convs EXCEPT ![IndexOf(convs, conv.id)] = conv]
    ELSE Append(convs, conv)

\* delete this.conversations[id]
DeleteConv(convs, id) ==
    IF HasConv(convs, id) THEN RemoveAt(convs, IndexOf(convs, id)) ELSE convs

\* The number of messages the store holds.
RECURSIVE StoredMessages(_)
StoredMessages(convs) ==
    IF convs = <<>> THEN 0
    ELSE Len(Head(convs).messages) + StoredMessages(Tail(convs))

\* A pending sendMessage holds the conversation object it read before its
\* await.  Once this.conversations[id] is deleted or overwritten, that
\* object is no longer the one in the store.
Orphan(cs, id) ==
    [i \in 1..Len(cs) |->
        IF cs[i].conv = Some(id) THEN [cs[i] EXCEPT !.conv = None] ELSE cs[i]]

\* The store methods below work on S = [conversations, current, storage,
\* calls], the part of the state they read and write.
StoreState ==
    [conversations |-> conversations, current |-> currentConversationId,
     storage |-> storage, calls |-> calls]

\* JSON.stringify(this.conversations): the text, as the list of the entries
\* in key order, each with its fields in the order they are written (id,
\* title, messages, created, updated), a message as role and content.
stringifyConversations(convs) ==
    [i \in 1..Len(convs) |->
        << convs[i].id, convs[i].title,
           [k \in 1..Len(convs[i].messages) |->
               << convs[i].messages[k].role, convs[i].messages[k].content >>],
           convs[i].created, convs[i].updated >>]

\* JSON.parse of such a text.
parseConversations(text) ==
    [i \in 1..Len(text) |->
        [id |-> text[i][1], title |-> text[i][2],
         messages |-> [k \in 1..Len(text[i][3]) |->
                          [role |-> text[i][3][k][1], content |-> text[i][3][k][2]]],
         created |-> text[i][4], updated |-> text[i][5]]]

\* loadConversations() on what localStorage holds.
loadConversations(stg) ==
    IF stg.conversations # None THEN parseConversations(stg.conversations[1]) ELSE <<>>

\* A saveConversations that writes nothing (a faulty variant).
saveConversationsLater(S) == S

saveConversations(S) ==
    [S EXCEPT !.storage.conversations = Some(stringifyConversations(S.conversations))]

saveCurrentConversationId(S, id) ==
    [S EXCEPT !.storage.current_conversation_id = Some(id), !.current = Some(id)]

\* loadConversation(id) for an id that is in the store (lines 1272-1295).
LoadExisting(S, id) == saveCurrentConversationId([S EXCEPT !.current = Some(id)], id)

\* createNewConversation(), Date.now() returning t.
createNewConversation(S, t) ==
    LET id == ConvId(t)
        conversation == [id |-> id, title |-> SentinelTitle, messages |-> <<>>,
                         created |-> t, updated |-> t]
        S1 == [S EXCEPT !.conversations = PutConv(@, conversation),
                        !.calls = Orphan(@, id)]
    IN LoadExisting(saveCurrentConversationId(saveConversations(S1), id), id)

\* loadConversation(id); t is what Date.now() returns if it is read.
loadConversation(S, id, t) ==
    IF ~HasConv(S.conversations, id)
    THEN createNewConversation(S, t)
    ELSE LoadExisting(S, id)

\* A deleteConversation that leaves the pointer alone (a faulty variant).
deleteConversationOnly(S, id, t) ==
    saveConversations([S EXCEPT !.conversations = DeleteConv(@, id),
                                !.calls = Orphan(@, id)])

\* deleteConversation(id), the confirm() answered with OK.
deleteConversation(S, id, t) ==
    LET S1 == saveConversations(
                  [S EXCEPT !.conversations = DeleteConv(@, id),
                            !.calls = Orphan(@, id)])
    IN IF Some(id) = S.current
       THEN IF Len(S1.conversations) > 0
            THEN loadConversation(S1, S1.conversations[1].id, t)
            ELSE createNewConversation(S1, t)
       ELSE S1

\* An updateConversationTitle that stamps the conversation with the epoch
\* (a faulty variant).
updateConversationTitleEpoch(S, id, title, t) ==
    IF HasConv(S.conversations, id)
    THEN saveConversations(
             [S EXCEPT !.conversations[IndexOf(S.conversations, id)] =
                           [@ EXCEPT !.title = title, !.updated = 0]])
    ELSE S

\* updateConversationTitle(id, title), Date.now() returning t.
updateConversationTitle(S, id, title, t) ==
    IF HasConv(S.conversations, id)
    THEN saveConversations(
             [S EXCEPT !.conversations[IndexOf(S.conversations, id)] =
                           [@ EXCEPT !.title = title, !.updated = t]])
    ELSE S

\* A list sorted by (a, b) => b.updated - a.updated with one more entry put
\* in: Array.prototype.sort is stable, so the entry comes behind every
\* entry that does not sort after it.
RECURSIVE InsertSorted(_, _)
InsertSorted(list, conv) ==
    IF list = <<>> THEN <<conv>>
    ELSE IF Head(list).updated >= conv.updated
         THEN <<Head(list)>> \o InsertSorted(Tail(list), conv)
         ELSE <<conv>> \o list

\* A sort that puts the later of two equal entries first (a faulty variant).
RECURSIVE sortedConversationsUnstable(_)
sortedConversationsUnstable(convs) ==
    IF convs = <<>> THEN <<>>
    ELSE InsertSorted(sortedConversationsUnstable(Tail(convs)), Head(convs))

\* renderConversationsList(): Object.values(this.conversations).sort(...),
\* the entries in the order the list shows them.
RECURSIVE sortedConversations(_)
sortedConversations(convs) ==
    IF convs = <<>> THEN <<>>
    ELSE InsertSorted(sortedConversations(SubSeq(convs, 1, Len(convs) - 1)),
                      convs[Len(convs)])

\* The constructor and init() on what localStorage holds.
StoreBoot(stg, t) ==
    LET S == [conversations |-> loadConversations(stg),
              current |-> stg.current_conversation_id,
              storage |-> stg,
              calls |-> <<>>]
    IN IF S.current = None \/ ~HasConv(S.conversations, S.current[1])
       THEN createNewConversation(S, t)
       ELSE loadConversation(S, S.current[1], t)

\* Writes S back to the variables.
StoreSet(S) ==
    /\ conversations' = S.conversations
    /\ currentConversationId' = S.current
    /\ storage' = S.storage
    /\ calls' = S.calls

StoreNewConversation ==
    /\ client = "store"
    /\ \E t \in ClockReads :
        /\ now' = t
        /\ StoreSet(createNewConversation(StoreState, t))
    /\ last' = Done
    /\ UNCHANGED <<client, nvim, model, apiKey, isLoading, status, messages, timers, sidebarVars>>

\* A click on a conversation of the list.
StoreLoadConversation(id) ==
    /\ client = "store"
    /\ HasConv(conversations, id)
    /\ StoreSet(loadConversation(StoreState, id, now))
    /\ last' = (IF Some(id) = currentConversationId THEN last ELSE Done)
    /\ UNCHANGED <<client, nvim, model, now, apiKey, isLoading, status, messages, timers,
                   sidebarVars>>

\* window.proChat.loadConversation(id) with an id the store does not hold.
StoreLoadMissing(id) ==
    /\ client = "store"
    /\ ~HasConv(conversations, id)
    /\ \E t \in ClockReads :
        /\ now' = t
        /\ StoreSet(loadConversation(StoreState, id, t))
    /\ last' = Done
    /\ UNCHANGED <<client, nvim, model, apiKey, isLoading, status, messages, timers, sidebarVars>>

\* The delete button of a list entry, the header's delete button or Ctrl+D.
StoreDeleteConversation(id, confirmed) ==
    /\ client = "store"
    /\ HasConv(conversations, id)
    /\ IF confirmed
       THEN \E t \in (IF Len(conversations) = 1 THEN ClockReads ELSE {now}) :
                /\ now' = t
                /\ StoreSet(deleteConversation(StoreState, id, t))
                /\ last' = Done
       ELSE UNCHANGED <<now, conversations, currentConversationId, storage, calls, last>>
    /\ UNCHANGED <<client, nvim, model, apiKey, isLoading, status, messages, timers, sidebarVars>>

TitleInputs == { <<" ">>, <<"T">> }

\* The blur handler of the title field.
StoreTitleBlur(input) ==
    /\ client = "store"
    /\ LET newTitle == trim(input)
           cur == IndexOf(conversations, currentConversationId[1])
       IN IF newTitle # <<>> /\ currentConversationId # None /\ cur # 0
             /\ newTitle # conversations[cur].title
          THEN \E t \in ClockReads :
                   /\ now' = t
                   /\ StoreSet(updateConversationTitle(
                          StoreState, currentConversationId[1], newTitle, t))
                   /\ last' = Done
          ELSE UNCHANGED <<now, conversations, currentConversationId, storage, calls, last>>
    /\ UNCHANGED <<client, nvim, model, apiKey, isLoading, status, messages, timers, sidebarVars>>

StoreBusy == isLoading

\* The messages list callOpenAI() puts into the request body (lines
\* 1712-1719), from the current conversation's messages.
StoreRequest(history) == <<SystemPrompt>> \o RoleAndContent(history)

\* sendMessage up to its await.
StoreSendMessage(input) ==
    /\ client = "store"
    /\ LET message == trim(input)
           cur == IF currentConversationId = None THEN 0
                  ELSE IndexOf(conversations, currentConversationId[1])
       IN
       IF message = <<>> \/ StoreBusy
       THEN /\ last' = (IF message = <<>> THEN "send:empty" ELSE "send:busy")
            /\ UNCHANGED <<now, status, isLoading, conversations,
                           currentConversationId, storage, calls>>
       ELSE IF NoApiKey
       THEN /\ status' = NeedKey
            /\ last' = "send:nokey"
            /\ UNCHANGED <<now, isLoading, conversations, currentConversationId,
                           storage, calls>>
       ELSE IF cur = 0
       THEN UNCHANGED <<now, status, last, isLoading, conversations,
                           currentConversationId, storage, calls>>
       ELSE /\ StoredMessages(conversations) < MaxMsgs
            /\ \E t \in ClockReads :
                LET id == currentConversationId[1]
                    pushed == [conversations EXCEPT ![cur] =
                                  [@ EXCEPT !.messages = Append(@, Msg("user", message)),
                                            !.updated = t]]
                    S1 == [StoreState EXCEPT !.conversations = pushed]
                    S2 == IF Len(pushed[cur].messages) = 1
                          THEN updateConversationTitle(S1, id, DerivedTitle(message), t)
                          ELSE S1
                    S3 == saveConversations(S2)
                IN /\ now' = t
                   /\ StoreSet([S3 EXCEPT !.calls = Append(@,
                          [conv |-> Some(id),
                           request |-> StoreRequest(S3.conversations[cur].messages)])])
            /\ isLoading' = TRUE
            /\ status' = Thinking
            /\ last' = Done
    /\ UNCHANGED <<client, nvim, model, apiKey, messages, timers, sidebarVars>>

\* sendMessage from its await on: the try/catch/finally around callOpenAI.
StoreResolve(i, r) ==
    /\ client = "store"
    /\ i \in 1..Len(calls)
    /\ LET res == callOpenAI(r)
           S0 == [StoreState EXCEPT !.calls = RemoveAt(@, i)]
           held == calls[i].conv
       IN
       IF ~res.threw
       THEN \E t \in ClockReads :
              LET pushed ==
                      IF held = None THEN conversations
                      ELSE [conversations EXCEPT ![IndexOf(conversations, held[1])] =
                              [@ EXCEPT !.messages = Append(@, Msg("assistant", res.text)),
                                        !.updated = t]]
              IN /\ now' = t
                 /\ StoreSet(saveConversations([S0 EXCEPT !.conversations = pushed]))
                 /\ status' = Ready
                 /\ last' = Done
       ELSE /\ now' = now
            /\ StoreSet(S0)
            /\ status' = Status("error", ErrorText(res.text))
            /\ last' = Done
    /\ Finally
    /\ UNCHANGED <<client, nvim, model, apiKey, messages, timers, sidebarVars>>

\* The message of the exception localStorage.setItem throws when the quota
\* is used up.
QuotaMessage == <<"The quota has been exceeded.">>

\* sendMessage on an accepted message when a localStorage.setItem of its
\* first part throws: 'failing' is the number of the throwing write, 1 the
\* first saveConversations() reached, 2 the one of line 1664 after the save
\* in updateConversationTitle went through.  The writes are outside the
\* try, so the exception leaves sendMessage there.
StoreSendMessageQuota(input, failing) ==
    /\ client = "store"
    /\ LET message == trim(input)
           cur == IF currentConversationId = None THEN 0
                  ELSE IndexOf(conversations, currentConversationId[1])
       IN
       /\ message # <<>>
       /\ ~StoreBusy
       /\ ~NoApiKey
       /\ cur # 0
       /\ StoredMessages(conversations) < MaxMsgs
       /\ \E t \in ClockReads :
            LET id == currentConversationId[1]
                pushed == [conversations EXCEPT ![cur] =
                              [@ EXCEPT !.messages = Append(@, Msg("user", message)),
                                        !.updated = t]]
                first == Len(pushed[cur].messages) = 1
                S1 == [StoreState EXCEPT !.conversations =
                          IF first
                          THEN [pushed EXCEPT ![cur] =
                                   [@ EXCEPT !.title = DerivedTitle(message),
                                             !.updated = t]]
                          ELSE pushed]
            IN /\ failing \in 1..(IF first THEN 2 ELSE 1)
               /\ now' = t
               /\ StoreSet(IF failing = 2 THEN saveConversations(S1) ELSE S1)
    /\ last' = Done
    /\ UNCHANGED <<client, nvim, model, apiKey, isLoading, status, messages, timers, sidebarVars>>

\* sendMessage from its await on when the provider answered and the
\* localStorage.setItem of line 1687 throws: the catch block reports it.
StoreResolveQuota(i, r) ==
    /\ client = "store"
    /\ i \in 1..Len(calls)
    /\ ~callOpenAI(r).threw
    /\ LET res == callOpenAI(r)
           S0 == [StoreState EXCEPT !.calls = RemoveAt(@, i)]
           held == calls[i].conv
       IN \E t \in ClockReads :
              LET pushed ==
                      IF held = None THEN conversations
                      ELSE [conversations EXCEPT ![IndexOf(conversations, held[1])] =
                              [@ EXCEPT !.messages = Append(@, Msg("assistant", res.text)),
                                        !.updated = t]]
              IN /\ now' = t
                 /\ StoreSet([S0 EXCEPT !.conversations = pushed])
    /\ status' = Status("error", ErrorText(QuotaMessage))
    /\ last' = Done
    /\ Finally
    /\ UNCHANGED <<client, nvim, model, apiKey, messages, timers, sidebarVars>>

\* clearCurrentChat; confirmed is the answer to its confirm().
StoreClearCurrentChat(confirmed) ==
    /\ client = "store"
    /\ LET cur == IF currentConversationId = None THEN 0
                  ELSE IndexOf(conversations, currentConversationId[1])
       IN IF confirmed /\ cur # 0
          THEN \E t \in ClockReads :
                 LET S1 == [StoreState EXCEPT !.conversations[cur] =
                               [@ EXCEPT !.messages = <<>>, !.updated = t]]
                 IN /\ now' = t
                    /\ StoreSet(loadConversation(saveConversations(S1),
                                                 currentConversationId[1], t))
                    /\ last' = Done
          ELSE UNCHANGED <<now, conversations, currentConversationId, storage, calls, last>>
    /\ UNCHANGED <<client, nvim, model, apiKey, isLoading, status, messages, timers, sidebarVars>>

StoreSaveSettings(input) ==
    /\ client = "store"
    /\ apiKey' = trim(input)
    /\ storage' = IF apiKey' # <<>>
                  THEN [storage EXCEPT !.openai_api_key = Some(apiKey')]
                  ELSE storage
    /\ status' = SettingsSaved
    /\ last' = Done
    /\ UNCHANGED <<client, nvim, model, now, isLoading, messages, calls, timers, storeVars,
                   sidebarVars>>

\* The callback saveSettings hands to setTimeout.  Here the model does not
\* keep whether one is pending: the status text is read by no handler, and
\* the callback may run at any time.
StoreStatusTimer ==
    /\ client = "store"
    /\ status # Ready
    /\ status' = Ready
    /\ last' = Done
    /\ UNCHANGED <<client, nvim, model, now, storage, apiKey, isLoading, messages, calls,
                   timers, storeVars, sidebarVars>>

\* A page reload: the constructor and init run again on what localStorage
\* holds; pending calls and timers die with the old page.
StoreReload ==
    /\ client = "store"
    /\ \E t \in (IF storage.current_conversation_id = None
                      \/ ~HasConv(loadConversations(storage),
                                  storage.current_conversation_id[1])
                   THEN ClockReads ELSE {now}) :
        /\ now' = t
        /\ StoreSet(StoreBoot(storage, t))
    /\ apiKey' = (IF storage.openai_api_key # None
                  THEN storage.openai_api_key[1] ELSE <<>>)
    /\ isLoading' = FALSE
    /\ status' = Ready
    /\ timers' = NoTimers
    /\ last' = Done
    /\ UNCHANGED <<client, nvim, model, messages, sidebarVars>>

StoreNext ==
    \/ StoreNewConversation
    \/ \E c \in 1..Len(conversations) : StoreLoadConversation(conversations[c].id)
    \/ \E c \in 1..Len(conversations), confirmed \in BOOLEAN :
          StoreDeleteConversation(conversations[c].id, confirmed)
    \/ \E input \in TitleInputs : StoreTitleBlur(input)
    \/ \E input \in InputValues : StoreSendMessage(input)
    \/ \E i \in 1..Len(calls), r \in Responses : StoreResolve(i, r)
    \/ \E confirmed \in BOOLEAN : StoreClearCurrentChat(confirmed)
    \/ \E input \in KeyInputs : StoreSaveSettings(input)
    \/ StoreStatusTimer
    \/ StoreReload

(* ----------------- src/src/App.jsx: function App (sidebar) ------------- *)
(* A handler's state updates, the render that follows and the effects     *)
(* that render triggers are one step.  Client "sidebar" runs with Memory  *)
(* disabled (the default), client "memory" with Memory enabled and saved  *)
(* in the settings; client "voice" is the App of src/unnamed/part_000     *)
(* (lines 1081-1775), whose handlers are the same text and whose save     *)
(* effect has no Memory switch.  The settings dialog is modelled as far   *)
(* as typing the API key.                                                 *)

SidebarClients == { "sidebar", "memory", "voice", "lastturn" }

\* useState(localStorage.getItem('memory_enabled') === 'true')
memoryEnabled == client = "memory"

\* JSON.stringify(chats): the text, as the list of the chats' fields in
\* the order they are written (id, title, messages, createdAt, updatedAt),
\* a message as role and content.
stringify(chs) ==
    [i \in 1..Len(chs) |->
        << chs[i].id, chs[i].title,
           [k \in 1..Len(chs[i].messages) |->
               << chs[i].messages[k].role, chs[i].messages[k].content >>],
           chs[i].createdAt, chs[i].updatedAt >>]

\* JSON.parse of such a text.
parse(text) ==
    [i \in 1..Len(text) |->
        [id |-> text[i][1], title |-> text[i][2],
         messages |-> [k \in 1..Len(text[i][3]) |->
                          [role |-> text[i][3][k][1], content |-> text[i][3][k][2]]],
         createdAt |-> text[i][4], updatedAt |-> text[i][5]]]

\* The effect on [chats, memoryEnabled] (lines 39-45; part_000 1116-1121):
\* what localStorage holds after it has run on the list chs.
SaveHistory(chs) ==
    IF client = "voice"
    THEN IF Len(chs) > 0
         THEN [storage EXCEPT !.pro_chat_history = Some(stringify(chs))]
         ELSE storage
    ELSE IF Len(chs) > 0 /\ memoryEnabled
         THEN [storage EXCEPT !.pro_chat_history = Some(stringify(chs))]
         ELSE IF ~memoryEnabled
              THEN [storage EXCEPT !.pro_chat_history = None]
              ELSE storage

\* Date.now().toString()
ChatId(t) == <<t>>

NewChatTitle == <<"New Chat">>

\* The number of messages the chats hold.
RECURSIVE ChatMessages(_)
ChatMessages(chs) ==
    IF chs = <<>> THEN 0
    ELSE Len(Head(chs).messages) + ChatMessages(Tail(chs))

\* The number of user messages in a list of messages, and in the chats.
RECURSIVE CountUser(_)
CountUser(ms) ==
    IF ms = <<>> THEN 0
    ELSE (IF Head(ms).role = "user" THEN 1 ELSE 0) + CountUser(Tail(ms))

RECURSIVE UserMessages(_)
UserMessages(chs) ==
    IF chs = <<>> THEN 0
    ELSE CountUser(Head(chs).messages) + UserMessages(Tail(chs))

\* The effect on [messages, currentChatId] (lines 48-58): the displayed
\* messages are written into every chat whose id is the current one.
SyncMessages(chs, cur, msgs, t) ==
    IF cur # None
    THEN [i \in 1..Len(chs) |->
            IF chs[i].id = cur[1]
            THEN [chs[i] EXCEPT !.messages = msgs, !.updatedAt = t]
            ELSE chs[i]]
    ELSE chs

\* updateChatTitle(chatId, firstMessage)
updateChatTitle(chs, chatId, firstMessage) ==
    [i \in 1..Len(chs) |->
        IF chs[i].id = chatId /\ chs[i].title = NewChatTitle
        THEN [chs[i] EXCEPT !.title = DerivedTitle(firstMessage)]
        ELSE chs[i]]

\* chats.filter(c => c.id !== chatId)
RECURSIVE FilterOut(_, _)
FilterOut(chs, chatId) ==
    IF chs = <<>> THEN <<>>
    ELSE IF Head(chs).id = chatId THEN FilterOut(Tail(chs), chatId)
    ELSE <<Head(chs)>> \o FilterOut(Tail(chs), chatId)

\* chats.find(c => c.id === chatId): the index of the first match, or 0.
FindChat(chs, chatId) ==
    IF \E i \in 1..Len(chs) : chs[i].id = chatId
    THEN CHOOSE i \in 1..Len(chs) :
            /\ chs[i].id = chatId
            /\ \A j \in 1..(i - 1) : chs[j].id # chatId
    ELSE 0

\* createNewChat(), Date.now() returning t, and the effects after it.
createNewChat(t) ==
    LET newChat == [id |-> ChatId(t), title |-> NewChatTitle, messages |-> <<>>,
                    createdAt |-> t, updatedAt |-> t]
    IN /\ chats' = SyncMessages(<<newChat>> \o chats, Some(ChatId(t)), <<>>, t)
       /\ currentChatId' = Some(ChatId(t))
       /\ messages' = <<>>

SidebarCreateNewChat ==
    /\ client \in SidebarClients
    /\ Len(chats) < MaxChats
    /\ \E t \in ClockReads :
        /\ now' = t
        /\ createNewChat(t)
    /\ last' = Done
    /\ storage' = SaveHistory(chats')
    /\ UNCHANGED <<client, nvim, model, apiKey, isLoading, status, calls, timers,
                   storeVars>>

SidebarSwitchChat(chatId) ==
    /\ client \in SidebarClients
    /\ FindChat(chats, chatId) # 0
    /\ Some(chatId) # currentChatId     \* else nothing is set to a new value
    /\ \E t \in ClockReads :
        /\ now' = t
        /\ currentChatId' = Some(chatId)
        /\ messages' = chats[FindChat(chats, chatId)].messages
        /\ chats' = SyncMessages(chats, currentChatId', messages', t)
    /\ last' = Done
    /\ storage' = SaveHistory(chats')
    /\ UNCHANGED <<client, nvim, model, apiKey, isLoading, status, calls, timers,
                   storeVars>>

SidebarDeleteChat(chatId) ==
    /\ client \in SidebarClients
    /\ LET newChats == FilterOut(chats, chatId) IN
       IF currentChatId = Some(chatId)
       THEN IF Len(newChats) > 0
            THEN \E t \in ClockReads :
                    /\ now' = t
                    /\ currentChatId' = Some(newChats[1].id)
                    /\ messages' = newChats[1].messages
                    /\ chats' = SyncMessages(newChats, currentChatId', messages', t)
            ELSE /\ currentChatId' = None
                 /\ messages' = <<>>
                 /\ chats' = newChats
                 /\ now' = now
       ELSE /\ chats' = newChats
            /\ UNCHANGED <<currentChatId, messages, now>>
    /\ last' = Done
    /\ storage' = SaveHistory(chats')
    /\ UNCHANGED <<client, nvim, model, apiKey, isLoading, status, calls, timers,
                   storeVars>>

\* What the API-key field of the settings dialog may hold after typing.
TypedKeys == { <<>>, <<"k">> }

\* Typing into the API-key field of the settings dialog.
SidebarSetApiKey(input) ==
    /\ client \in SidebarClients
    /\ apiKey # input
    /\ apiKey' = input
    /\ last' = Done
    /\ UNCHANGED <<client, nvim, model, now, storage, isLoading, status, messages, calls,
                   timers, storeVars, sidebarVars>>

SidebarBusy == isLoading

\* A client that always sends the whole history (a faulty variant).
contextEnabledAlways == TRUE

\* useState(localStorage.getItem('context_enabled') !== 'false')
contextEnabled == client # "lastturn"

\* The conversation callAPI(message, conversationMessages) puts into the
\* request body (lines 227-244).
callAPIRequest(conversationMessages) ==
    IF contextEnabled
    THEN <<SystemPrompt>> \o RoleAndContent(conversationMessages)
    ELSE IF conversationMessages # <<>>
         THEN <<SystemPrompt>>
              \o RoleAndContent(<<conversationMessages[Len(conversationMessages)]>>)
         ELSE <<SystemPrompt>>

\* sendMessage up to its await.
SidebarSendMessage(input) ==
    /\ client \in SidebarClients
    /\ LET message == trim(input) IN
       IF message = <<>> \/ SidebarBusy
       THEN /\ last' = (IF message = <<>> THEN "send:empty" ELSE "send:busy")
            /\ UNCHANGED <<now, status, isLoading, messages, chats, currentChatId,
                           calls, timers>>
       ELSE IF NoApiKey
       THEN /\ status' = NeedKey
            /\ last' = "send:nokey"
            /\ UNCHANGED <<now, isLoading, messages, chats, currentChatId, calls,
                           timers>>
       ELSE IF currentChatId = None
       THEN /\ Len(chats) < MaxChats
            /\ \E t \in ClockReads :
                /\ now' = t
                /\ createNewChat(t)
            /\ timers' = [timers EXCEPT !.retry = TRUE]
            /\ last' = Done
            /\ UNCHANGED <<status, isLoading, calls>>
       ELSE /\ UserMessages(chats) < MaxMsgs
            /\ ChatMessages(chats) <= MaxMsgs
            /\ \E t \in ClockReads :
                LET newMessages == Append(messages, Msg("user", message))
                    titled == IF Len(messages) = 0
                              THEN updateChatTitle(chats, currentChatId[1], message)
                              ELSE chats
                IN /\ now' = t
                   /\ messages' = newMessages
                   /\ chats' = SyncMessages(titled, currentChatId, newMessages, t)
            /\ isLoading' = TRUE
            /\ status' = Thinking
            /\ calls' = Append(calls,
                   [conv |-> currentChatId,
                    request |-> callAPIRequest(Append(messages, Msg("user", message)))])
            /\ last' = Done
            /\ UNCHANGED <<currentChatId, timers>>
    /\ storage' = SaveHistory(chats')
    /\ UNCHANGED <<client, nvim, model, apiKey, storeVars>>

\* The callback of setTimeout(() => sendMessage(), 100).  It runs the
\* sendMessage of the render that scheduled it: in that closure the input is
\* non-empty, isLoading is false, apiKey is set and currentChatId is null,
\* so it takes the same branch again.
SidebarRetryTimer ==
    /\ client \in SidebarClients
    /\ timers.retry
    /\ Len(chats) < MaxChats
    /\ \E t \in ClockReads :
        /\ now' = t
        /\ createNewChat(t)
    /\ timers' = [timers EXCEPT !.retry = TRUE]
    /\ last' = Done
    /\ storage' = SaveHistory(chats')
    /\ UNCHANGED <<client, nvim, model, apiKey, isLoading, status, calls, storeVars>>

\* sendMessage from its await on: the try/catch/finally around callAPI.
SidebarResolve(i, r) ==
    /\ client \in SidebarClients
    /\ i \in 1..Len(calls)
    /\ LET res == callOpenAI(r) IN
       /\ messages' = Append(messages,
              Msg("assistant", IF res.threw THEN ErrorText(res.text) ELSE res.text))
       /\ status' = (IF res.threw THEN Status("error", ErrorText(res.text)) ELSE Ready)
       /\ last' = Done
    /\ \E t \in (IF currentChatId = None THEN {now} ELSE ClockReads) :
        /\ now' = t
        /\ chats' = SyncMessages(chats, currentChatId, messages', t)
    /\ Finally
    /\ calls' = RemoveAt(calls, i)
    /\ storage' = SaveHistory(chats')
    /\ UNCHANGED <<client, nvim, model, apiKey, currentChatId, timers, storeVars>>

\* clearChat and the effects after it.
SidebarClearChat ==
    /\ client \in SidebarClients
    /\ IF currentChatId # None
       THEN \E t \in ClockReads :
               LET cleared == [i \in 1..Len(chats) |->
                                 IF chats[i].id = currentChatId[1]
                                 THEN [chats[i] EXCEPT !.messages = <<>>,
                                                       !.title = NewChatTitle]
                                 ELSE chats[i]]
               IN /\ now' = t
                  /\ messages' = <<>>
                  /\ chats' = SyncMessages(cleared, currentChatId, <<>>, t)
       ELSE UNCHANGED <<now, messages, chats>>
    /\ status' = Ready
    /\ last' = Done
    /\ storage' = SaveHistory(chats')
    /\ UNCHANGED <<client, nvim, model, apiKey, isLoading, currentChatId, calls, timers,
                   storeVars>>

\* A page reload: the component mounts again and its effects run (lines
\* 24-58): the load effect takes the saved list and makes its first chat
\* the current one, the sync effect stamps that chat, the save effect
\* writes the list back.  The settings dialog's Save is not part of this
\* model, so no API key is stored.  Pending calls and timers die with the
\* old page.
SidebarReload ==
    /\ client \in SidebarClients
    /\ LET savedChats == storage.pro_chat_history
           parsedChats == IF savedChats # None THEN parse(savedChats[1]) ELSE <<>>
       IN IF Len(parsedChats) > 0
          THEN \E t \in ClockReads :
                  /\ now' = t
                  /\ currentChatId' = Some(parsedChats[1].id)
                  /\ messages' = parsedChats[1].messages
                  /\ chats' = SyncMessages(parsedChats, currentChatId', messages', t)
          ELSE /\ chats' = <<>>
               /\ currentChatId' = None
               /\ messages' = <<>>
               /\ now' = now
    /\ storage' = SaveHistory(chats')
    /\ apiKey' = <<>>
    /\ isLoading' = FALSE
    /\ status' = Ready
    /\ calls' = <<>>
    /\ timers' = NoTimers
    /\ last' = Done
    /\ UNCHANGED <<client, nvim, model, storeVars>>

SidebarNext ==
    \/ SidebarCreateNewChat
    \/ \E c \in 1..Len(chats) : SidebarSwitchChat(chats[c].id)
    \/ \E c \in 1..Len(chats) : SidebarDeleteChat(chats[c].id)
    \/ \E input \in TypedKeys : SidebarSetApiKey(input)
    \/ \E input \in InputValues : SidebarSendMessage(input)
    \/ SidebarRetryTimer
    \/ \E i \in 1..Len(calls), r \in Responses : SidebarResolve(i, r)
    \/ SidebarClearChat
    \/ SidebarReload

(* ----------- src/unnamed/part_000: function App (markdown) ------------ *)
(* The second App of part_000 (lines 409-1079).  chats is a list, newest   *)
(* first; currentChatId is a number and is held as Some(id).  A handler's   *)
(* state updates, the render that follows and the effects are one step.    *)
(* The handlers are those of the buttons, which belong to the last render. *)
(* The variable 'last' is not used by this client.                         *)

\* JSON.stringify(chats): the text, as the list of the chats' fields in the
\* order they are written (id, title, messages, createdAt), a message as
\* role and content.
mdStringify(chs) ==
    [i \in 1..Len(chs) |->
        << chs[i].id, chs[i].title,
           [k \in 1..Len(chs[i].messages) |->
               << chs[i].messages[k].role, chs[i].messages[k].content >>],
           chs[i].createdAt >>]

\* JSON.parse of such a text.
mdParse(text) ==
    [i \in 1..Len(text) |->
        [id |-> text[i][1], title |-> text[i][2],
         messages |-> [k \in 1..Len(text[i][3]) |->
                          [role |-> text[i][3][k][1], content |-> text[i][3][k][2]]],
         createdAt |-> text[i][4]]]

\* The effect on [chats]: what localStorage holds after it has run.
mdSaveHistory(chs) == [storage EXCEPT !.chat_history = Some(mdStringify(chs))]

\* { id: Date.now(), title: 'New Chat', messages: [], createdAt: Date.now() }
mdNewChat(t1, t2) ==
    [id |-> t1, title |-> NewChatTitle, messages |-> <<>>, createdAt |-> t2]

\* message.slice(0, 50)
mdSlice(message) ==
    SubSeq(message, 1, IF Len(message) < TitleMax THEN Len(message) ELSE TitleMax)

\* chats.find(c => c.id === currentChatId) || chats[0]: the index of the
\* chat that is displayed, 0 when the list is empty.
mdCurrentChat(chs, cur) ==
    IF FindChat(chs, cur) # 0 THEN FindChat(chs, cur)
    ELSE IF Len(chs) > 0 THEN 1 ELSE 0

\* const messages = currentChat?.messages || []
mdMessages(chs, cur) ==
    IF mdCurrentChat(chs, cur) # 0 THEN chs[mdCurrentChat(chs, cur)].messages ELSE <<>>

\* prevChats.map(chat => chat.id === id ? {...chat, messages: [...chat.messages, msg]} : chat)
mdAppendTo(chs, id, msg) ==
    [i \in 1..Len(chs) |->
        IF chs[i].id = id
        THEN [chs[i] EXCEPT !.messages = Append(@, msg)]
        ELSE chs[i]]

\* The map of sendMessage (lines 524-528): the user message is appended to
\* every chat with the current id, and a chat without messages takes the
\* message as its title.
mdAppendUser(chs, id, message) ==
    [i \in 1..Len(chs) |->
        IF chs[i].id = id
        THEN [chs[i] EXCEPT !.messages = Append(@, Msg("user", message)),
                            !.title = IF Len(chs[i].messages) = 0
                                      THEN mdSlice(message) ELSE @]
        ELSE chs[i]]

\* The conversation callOpenAI(message) puts into the request body (lines
\* 555-559); msgs is the messages of the render sendMessage belongs to.
mdRequest(msgs, message) ==
    <<SystemPrompt>> \o RoleAndContent(msgs) \o <<Msg("user", message)>>

\* The values Date.now() may return at or after t.
mdClockReads(t) == { u \in {t, t + 1} : u <= MaxMdClock }

MdCreateNewChat ==
    /\ client = "markdown"
    /\ Len(chats) < MaxMdChats
    /\ \E t1 \in mdClockReads(now) :
         \E t2 \in mdClockReads(t1) :
            /\ now' = t2
            /\ chats' = <<mdNewChat(t1, t2)>> \o chats
            /\ currentChatId' = Some(t1)
    /\ storage' = mdSaveHistory(chats')
    /\ UNCHANGED <<client, nvim, last, model, apiKey, isLoading, status, messages, calls, timers,
                   storeVars>>

\* A click on a chat of the sidebar list.
MdSwitchToChat(chatId) ==
    /\ client = "markdown"
    /\ FindChat(chats, chatId) # 0
    /\ Some(chatId) # currentChatId
    /\ currentChatId' = Some(chatId)
    /\ UNCHANGED <<client, nvim, last, model, now, storage, apiKey, isLoading, status, messages,
                   calls, timers, storeVars, chats>>

\* clearChat's map (lines 623-627).
mdClear(chs, id) ==
    [i \in 1..Len(chs) |->
        IF chs[i].id = id
        THEN [chs[i] EXCEPT !.messages = <<>>, !.title = NewChatTitle]
        ELSE chs[i]]

MdClearChat ==
    /\ client = "markdown"
    /\ chats' = mdClear(chats, currentChatId[1])
    /\ status' = Ready
    /\ storage' = mdSaveHistory(chats')
    /\ UNCHANGED <<client, nvim, last, model, now, apiKey, isLoading, messages, calls, timers,
                   storeVars, currentChatId>>

\* newChats[currentIndex] || newChats[currentIndex - 1] || newChats[0],
\* currentIndex being the 1-based index (0 for findIndex's -1): the index
\* into newChats, 0 when every candidate is undefined.
mdNewCurrent(newChats, currentIndex) ==
    IF currentIndex \in 1..Len(newChats) THEN currentIndex
    ELSE IF (currentIndex - 1) \in 1..Len(newChats) THEN currentIndex - 1
    ELSE IF Len(newChats) > 0 THEN 1
    ELSE 0

\* deleteCurrentChat.  When no chat is left, newCurrentChat is undefined
\* and 'newCurrentChat.id' throws after setChats(newChats) was called: the
\* list is set and the pointer is not.
MdDeleteCurrentChat ==
    /\ client = "markdown"
    /\ IF Len(chats) = 1
       THEN /\ chats' = mdClear(chats, currentChatId[1])
            /\ status' = Ready
            /\ currentChatId' = currentChatId
       ELSE LET currentIndex == FindChat(chats, currentChatId[1])
                newChats == FilterOut(chats, currentChatId[1])
                newCurrentChat == mdNewCurrent(newChats, currentIndex)
            IN /\ chats' = newChats
               /\ currentChatId' = IF newCurrentChat # 0
                                    THEN Some(newChats[newCurrentChat].id)
                                    ELSE currentChatId
               /\ status' = status
    /\ storage' = mdSaveHistory(chats')
    /\ UNCHANGED <<client, nvim, last, model, now, apiKey, isLoading, messages, calls, timers,
                   storeVars>>

\* Typing into the API-key field of the settings dialog.
MdSetApiKey(input) ==
    /\ client = "markdown"
    /\ apiKey # input
    /\ apiKey' = input
    /\ UNCHANGED <<client, nvim, last, model, now, storage, isLoading, status, messages, calls,
                   timers, storeVars, sidebarVars>>

MdSaveSettings ==
    /\ client = "markdown"
    /\ storage' = [storage EXCEPT !.openrouter_api_key = Some(apiKey)]
    /\ status' = SettingsSaved
    /\ timers' = [timers EXCEPT !.status = TRUE]
    /\ UNCHANGED <<client, nvim, last, model, now, apiKey, isLoading, messages, calls, storeVars,
                   sidebarVars>>

\* A callback of saveSettings' setTimeout.
MdStatusTimer ==
    /\ client = "markdown"
    /\ timers.status
    /\ status' = Ready
    /\ timers' \in { timers, [timers EXCEPT !.status = FALSE] }
    /\ UNCHANGED <<client, nvim, last, model, now, storage, apiKey, isLoading, messages, calls,
                   storeVars, sidebarVars>>

\* sendMessage up to its await.
MdSendMessage(input) ==
    /\ client = "markdown"
    /\ LET message == trim(input) IN
       IF message = <<>> \/ isLoading
       THEN UNCHANGED <<status, isLoading, chats, calls>>
       ELSE IF NoApiKey
       THEN /\ status' = NeedKey
            /\ UNCHANGED <<isLoading, chats, calls>>
       ELSE /\ UserMessages(chats) < MaxMsgs
            /\ ChatMessages(chats) <= MaxMsgs
            /\ chats' = mdAppendUser(chats, currentChatId[1], message)
            /\ isLoading' = TRUE
            /\ status' = Thinking
            /\ calls' = Append(calls,
                   [conv |-> currentChatId,
                    request |-> mdRequest(mdMessages(chats, currentChatId[1]), message)])
    /\ storage' = mdSaveHistory(chats')
    /\ UNCHANGED <<client, nvim, last, model, now, apiKey, messages, timers, storeVars,
                   currentChatId>>

\* sendMessage from its await on: the try/catch/finally around callOpenAI.
\* currentChatId is the one of the render sendMessage belongs to.
MdResolve(i, r) ==
    /\ client = "markdown"
    /\ i \in 1..Len(calls)
    /\ LET res == callOpenAI(r) IN
       /\ chats' = mdAppendTo(chats, calls[i].conv[1],
              Msg("assistant", IF res.threw THEN ErrorText(res.text) ELSE res.text))
       /\ status' = (IF res.threw THEN Status("error", ErrorText(res.text)) ELSE Ready)
    /\ Finally
    /\ calls' = RemoveAt(calls, i)
    /\ storage' = mdSaveHistory(chats')
    /\ UNCHANGED <<client, nvim, last, model, now, apiKey, messages, timers, storeVars,
                   currentChatId>>

\* The page is loaded again: the useState initializers read localStorage
\* (lines 413-422) and the effect writes the list back.  'chat_history' is
\* set from the first render on.  With an empty list saved,
\* JSON.parse(saved)[0].id throws in the initializer and nothing is
\* rendered: that load is no step of the model.
MdReload ==
    /\ client = "markdown"
    /\ storage.chat_history # None
    /\ Len(mdParse(storage.chat_history[1])) > 0
    /\ chats' = mdParse(storage.chat_history[1])
    /\ currentChatId' = Some(chats'[1].id)
    /\ apiKey' = (IF storage.openrouter_api_key # None
                  THEN storage.openrouter_api_key[1] ELSE <<>>)
    /\ storage' = mdSaveHistory(chats')
    /\ isLoading' = FALSE
    /\ status' = Ready
    /\ calls' = <<>>
    /\ timers' = NoTimers
    /\ UNCHANGED <<client, nvim, last, model, now, messages, storeVars>>

MdNext ==
    \/ MdCreateNewChat
    \/ \E c \in 1..Len(chats) : MdSwitchToChat(chats[c].id)
    \/ MdDeleteCurrentChat
    \/ MdClearChat
    \/ \E input \in TypedKeys : MdSetApiKey(input)
    \/ MdSaveSettings
    \/ MdStatusTimer
    \/ \E input \in InputValues : MdSendMessage(input)
    \/ \E i \in 1..Len(calls), r \in Responses : MdResolve(i, r)
    \/ MdReload

\* A first visit of the markdown client: localStorage is empty and the
\* initializers of chats and currentChatId read Date.now() one after the
\* other (lines 413-420); the effect has saved the list.
InitMarkdown ==
    /\ client = "markdown"
    /\ nvim = NoNvim
    /\ \E t2 \in mdClockReads(1) :
       \E t3 \in mdClockReads(t2) :
          /\ chats = <<mdNewChat(1, t2)>>
          /\ currentChatId = Some(t3)
          /\ now = t3
    /\ storage = [EmptyStorage EXCEPT !.chat_history = Some(mdStringify(chats))]
    /\ apiKey = <<>>
    /\ model = DefaultModel
    /\ isLoading = FALSE
    /\ status = Ready
    /\ messages = <<>>
    /\ conversations = <<>>
    /\ currentConversationId = None
    /\ calls = <<>>
    /\ timers = NoTimers
    /\ last = Done

SpecMarkdown == InitMarkdown /\ [][MdNext]_vars

(* ------------- src/nvim-plugin/lua/pro-chat/init.lua ------------------ *)
(* The functions of the plugin as operators on the record N (see NoNvim),  *)
(* each giving the record after the call.  Window, buffer and channel      *)
(* handles are numbers that are never used twice.  Buffers are deleted     *)
(* only by the plugin.                                                     *)

\* The variables of the web clients.
webVars == <<now, storage, apiKey, isLoading, status, messages, conversations,
             currentConversationId, chats, currentChatId, model, calls, timers, last>>

\* is_open(): state.win ~= nil and vim.api.nvim_win_is_valid(state.win)
is_open(N) == N.win # None /\ N.winValid

\* A buf_valid that never finds the buffer (a faulty variant).
buf_validNever(N) == FALSE

\* buf_valid(): state.buf ~= nil and vim.api.nvim_buf_is_valid(state.buf)
buf_valid(N) == N.buf # None /\ N.buf[1] \in N.bufs

\* The split of 'botright vertical <width>split' and
\* state.win = vim.api.nvim_get_current_win(), the new window showing buffer b.
Split(N, b) ==
    [N EXCEPT !.windows = @ + 1, !.win = Some(N.windows + 1),
              !.winValid = TRUE, !.shows = b]

\* M.open(); found is whether build_cmd() finds the binary.
open(N, found) ==
    IF is_open(N) THEN N
    ELSE IF buf_valid(N) THEN Split(N, N.buf)
    ELSE IF ~found THEN [N EXCEPT !.note = "error:nobinary"]
    ELSE LET b == N.launched + 1 IN
         [Split(N, Some(b)) EXCEPT !.launched = b, !.buf = Some(b), !.chan = Some(b),
                                   !.bufs = @ \cup {b}, !.jobs = @ \cup {b}]

\* vim.api.nvim_win_close(state.win, true): the window is closed; on the
\* last window of the editor the call fails with E444 and raises.
CanClose(N) == N.others > 0

\* M.close()
close(N) ==
    IF is_open(N)
    THEN IF CanClose(N)
         THEN [N EXCEPT !.winValid = FALSE, !.shows = None, !.win = None]
         ELSE N
    ELSE N

\* M.toggle()
toggle(N, found) == IF is_open(N) THEN close(N) ELSE open(N, found)

\* M.send_raw(text)
send_raw(N, text) ==
    IF N.chan = None THEN [N EXCEPT !.note = "warn:notrunning"]
    ELSE [N EXCEPT !.sent = Append(@, <<N.chan[1], text>>)]

\* ensure_and_send(prompt), and the same two steps at the end of
\* send_selection, ask and send_file.
ensure_and_send(N, prompt, found) ==
    send_raw(IF N.chan = None THEN open(N, found) ELSE N, prompt)

\* vim.api.nvim_buf_delete(state.buf, { force = true }): the buffer is
\* wiped; a window that shows it is closed, the last window of the editor
\* stays and shows another buffer.
buf_delete(N) ==
    LET N1 == [N EXCEPT !.bufs = @ \ {N.buf[1]}] IN
    IF N.winValid /\ N.shows = N.buf
    THEN IF CanClose(N)
         THEN [N1 EXCEPT !.winValid = FALSE, !.shows = None]
         ELSE [N1 EXCEPT !.shows = None]
    ELSE N1

\* The on_exit callback of termopen, exit_code being the process's code.
\* When nvim_win_close raises, the callback ends there.
on_exit(N, exit_code) ==
    LET N1 == [N EXCEPT !.chan = None]
        N2 == IF buf_valid(N1) THEN buf_delete(N1) ELSE N1
        N3 == [N2 EXCEPT !.buf = None]
        noted(M) == IF exit_code # 0 THEN [M EXCEPT !.note = "warn:exited"] ELSE M
    IN IF is_open(N3)
       THEN IF CanClose(N3)
            THEN noted([N3 EXCEPT !.winValid = FALSE, !.shows = None, !.win = None])
            ELSE N3
       ELSE noted([N3 EXCEPT !.win = None])

\* The record stays within the bounds.
NvimBounded(N) ==
    /\ N.launched <= MaxLaunches
    /\ N.windows <= MaxSplits
    /\ Len(N.sent) <= MaxSent

NvimTexts == { "t" }

NvimOpen(found) ==
    /\ client = "nvim"
    /\ nvim' = open(nvim, found)
    /\ NvimBounded(nvim')
    /\ UNCHANGED <<client, webVars>>

NvimClose ==
    /\ client = "nvim"
    /\ nvim' = close(nvim)
    /\ UNCHANGED <<client, webVars>>

NvimToggle(found) ==
    /\ client = "nvim"
    /\ nvim' = toggle(nvim, found)
    /\ NvimBounded(nvim')
    /\ UNCHANGED <<client, webVars>>

NvimSendRaw(text) ==
    /\ client = "nvim"
    /\ nvim' = send_raw(nvim, text)
    /\ NvimBounded(nvim')
    /\ UNCHANGED <<client, webVars>>

NvimEnsureAndSend(prompt, found) ==
    /\ client = "nvim"
    /\ nvim' = ensure_and_send(nvim, prompt, found)
    /\ NvimBounded(nvim')
    /\ UNCHANGED <<client, webVars>>

\* The pro-chat process of channel j exits with exit_code.
NvimJobExit(j, exit_code) ==
    /\ client = "nvim"
    /\ j \in nvim.jobs
    /\ nvim' = on_exit([nvim EXCEPT !.jobs = @ \ {j}], exit_code)
    /\ UNCHANGED <<client, webVars>>

\* The user closes the pro-chat window by hand (:q); the editor keeps at
\* least one window.
NvimUserCloseWindow ==
    /\ client = "nvim"
    /\ is_open(nvim)
    /\ CanClose(nvim)
    /\ nvim' = [nvim EXCEPT !.winValid = FALSE, !.shows = None]
    /\ UNCHANGED <<client, webVars>>

\* The user makes the pro-chat window the only window (:only).
NvimUserOnly ==
    /\ client = "nvim"
    /\ is_open(nvim)
    /\ nvim.others > 0
    /\ nvim' = [nvim EXCEPT !.others = 0]
    /\ UNCHANGED <<client, webVars>>

\* The user splits a window off.
NvimUserSplit ==
    /\ client = "nvim"
    /\ nvim.others = 0
    /\ nvim' = [nvim EXCEPT !.others = 1]
    /\ UNCHANGED <<client, webVars>>

NvimNext ==
    \/ \E found \in BOOLEAN : NvimOpen(found)
    \/ NvimClose
    \/ \E found \in BOOLEAN : NvimToggle(found)
    \/ \E text \in NvimTexts : NvimSendRaw(text)
    \/ \E prompt \in NvimTexts, found \in BOOLEAN : NvimEnsureAndSend(prompt, found)
    \/ \E j \in nvim.jobs, exit_code \in {0, 1} : NvimJobExit(j, exit_code)
    \/ NvimUserCloseWindow
    \/ NvimUserOnly
    \/ NvimUserSplit

(* ------------------------------- Init ---------------------------------- *)

Clients == { "app", "multi", "store", "sidebar", "memory", "voice", "lastturn", "nvim" }

\* A first visit: the page is loaded with localStorage empty, and the
\* client's constructor has run.
Init ==
    /\ client \in Clients
    /\ nvim = NoNvim
    /\ now = 1
    /\ apiKey = <<>>
    /\ model = DefaultModel
    /\ isLoading = FALSE
    /\ status = Ready
    /\ messages = <<>>
    /\ chats = <<>>
    /\ currentChatId = None
    /\ timers = NoTimers
    /\ last = Done
    /\ IF client = "store"
       THEN LET S == StoreBoot(EmptyStorage, 1)
            IN /\ conversations = S.conversations
               /\ currentConversationId = S.current
               /\ storage = S.storage
               /\ calls = S.calls
       ELSE /\ conversations = <<>>
            /\ currentConversationId = None
            /\ storage = EmptyStorage
            /\ calls = <<>>

Next == AppNext \/ MultiNext \/ StoreNext \/ SidebarNext \/ MdNext \/ NvimNext

\* The markdown client starts with a chat, so it has an Init of its own.
Spec == (Init \/ InitMarkdown) /\ [][Next]_vars

\* The Neovim plugin after it is loaded.
InitNvim == Init /\ client = "nvim"
SpecNvim == InitNvim /\ [][NvimNext]_vars

\* One client each.
InitApp == Init /\ client = "app"
SpecApp == InitApp /\ [][AppNext]_vars

InitMulti == Init /\ client = "multi"
SpecMulti == InitMulti /\ [][MultiNext]_vars

\* The models the table lists.
ListedModels ==
    UNION { { providers[i].models[k] : k \in 1..Len(providers[i].models) } :
            i \in 1..Len(providers) }

\* The multi-provider client loaded with a key and a listed model in its
\* saved settings.
InitDecode ==
    /\ client = "multi"
    /\ nvim = NoNvim
    /\ now = 1
    /\ apiKey = <<"k">>
    /\ model \in ListedModels
    /\ storage = [EmptyStorage EXCEPT !.ai_api_key = Some(apiKey),
                                      !.ai_model = Some(model)]
    /\ isLoading = FALSE
    /\ status = Ready
    /\ messages = <<>>
    /\ conversations = <<>>
    /\ currentConversationId = None
    /\ chats = <<>>
    /\ currentChatId = None
    /\ calls = <<>>
    /\ timers = NoTimers
    /\ last = Done

\* Its sends, answered by a failing provider.
DecodeNext ==
    \/ \E input \in InputValues : MultiSendMessage(input)
    \/ \E i \in 1..Len(calls), r \in ErrorResponses : MultiResolve(i, r)
    \/ MultiClearChat

SpecDecode == InitDecode /\ [][DecodeNext]_vars

\* The two clients that always send the whole history.
PlainClients == { "app", "multi" }
InitPlain == Init /\ client \in PlainClients
PlainNext == AppNext \/ MultiNext
SpecPlain == InitPlain /\ [][PlainNext]_vars

InitStore == Init /\ client = "store"
SpecStore == InitStore /\ [][StoreNext]_vars

\* The conversation store with loadConversation called on any id.
LoadIds == { ConvId(t) : t \in 0..MaxClock }
InitLoad == Init /\ client = "store"
LoadNext == StoreNext \/ \E id \in LoadIds : StoreLoadMissing(id)
SpecLoad == InitLoad /\ [][LoadNext]_vars

\* The conversation store with a localStorage whose writes can fail
\* during sendMessage.
InitQuota == Init /\ client = "store"
QuotaNext ==
    \/ StoreNext
    \/ \E input \in InputValues, failing \in 1..2 : StoreSendMessageQuota(input, failing)
    \/ \E i \in 1..Len(calls), r \in Responses : StoreResolveQuota(i, r)
SpecQuota == InitQuota /\ [][QuotaNext]_vars

InitSidebar == Init /\ client = "sidebar"
SpecSidebar == InitSidebar /\ [][SidebarNext]_vars

\* The two class-based clients.
ClassClients == { "app", "store" }
InitClass == Init /\ client \in ClassClients
ClassNext == AppNext \/ StoreNext
SpecClass == InitClass /\ [][ClassNext]_vars

(* ------------------------------ properties ----------------------------- *)

\* Empty or whitespace-only input.
Blank(input) == \A k \in 1..Len(input) : IsSpace(input[k])

\* sendMessage of a class-based client, called with this input.
ClassSendMessage(input) == AppSendMessage(input) \/ StoreSendMessage(input)

\* What a send must leave alone when it is rejected: the history, the store
\* and its persisted copy, the loading flag and the outstanding calls.
SendState == <<messages, conversations, currentConversationId, storage,
               isLoading, calls>>

\* A non-blank send while a call is outstanding; a step that starts a call.
C1_RejectsWhileBusy ==
    \A input \in InputValues :
        (~Blank(input) /\ calls # <<>> /\ ClassSendMessage(input))
            => (last' = "send:busy" /\ UNCHANGED SendState)

C1_CheckAndSet == (Len(calls') > Len(calls)) => (~isLoading /\ isLoading')

\* C1: in the class-based clients a sendMessage with non-empty text while an
\* earlier call is outstanding is rejected - no message appended, no call
\* issued - so at most one provider call is outstanding at any moment; and an
\* accepted send finds isLoading false and sets it in the same step.
C1_SecondSendRejected ==
    /\ [](Len(calls) <= 1)
    /\ [][C1_RejectsWhileBusy /\ C1_CheckAndSet]_vars

C1_Witness == client = "store" /\ last = "send:busy" /\ Len(calls) = 1

\* The two clients that keep several conversations.
ConvClients == { "store", "sidebar" }
InitConv == Init /\ client \in ConvClients
ConvNext == StoreNext \/ SidebarNext
SpecConv == InitConv /\ [][ConvNext]_vars

\* The sidebar client with Context disabled.
InitLastTurn == Init /\ client = "lastturn"
SpecLastTurn == InitLastTurn /\ [][SidebarNext]_vars

\* The clients that keep 'pro_chat_history'.
HistoryClients == { "memory", "voice" }
InitHistory == Init /\ client \in HistoryClients

\* Their operations without switchChat: createNewChat, sendMessage (with
\* the typing of the key it needs, its retry timer and its continuation),
\* clearChat, deleteChat and the page reload.
HistoryNext ==
    \/ SidebarCreateNewChat
    \/ \E c \in 1..Len(chats) : SidebarDeleteChat(chats[c].id)
    \/ \E input \in TypedKeys : SidebarSetApiKey(input)
    \/ \E input \in InputValues : SidebarSendMessage(input)
    \/ SidebarRetryTimer
    \/ \E i \in 1..Len(calls), r \in Responses : SidebarResolve(i, r)
    \/ SidebarClearChat
    \/ SidebarReload

SpecHistory == InitHistory /\ [][HistoryNext]_vars

\* No two chats of the list have the same id.
DistinctChatIds(chs) ==
    \A i, j \in 1..Len(chs) : chs[i].id = chs[j].id => i = j

\* C2: in the sidebar client, when a call resolves whose send was accepted in
\* chat A and the user has since switched to another chat or created one, the
\* reply or 'Error: ...' message is appended to chat A's messages and the
\* messages of every other chat stay as they were.
C2_ReplyLandsInSendersChat ==
    [][ \A i \in 1..Len(calls), r \in Responses :
          LET A == calls[i].conv
              res == callOpenAI(r)
              reply == Msg("assistant",
                           IF res.threw THEN ErrorText(res.text) ELSE res.text)
          IN ( /\ SidebarResolve(i, r)
               /\ A # None /\ A # currentChatId
               /\ FindChat(chats, A[1]) # 0
               /\ DistinctChatIds(chats) )
             => \A c \in 1..Len(chats) :
                   chats'[c].messages =
                       IF chats[c].id = A[1]
                       THEN Append(chats[c].messages, reply)
                       ELSE chats[c].messages ]_vars

\* The number of assistant messages a history holds.
RECURSIVE Assistants(_)
Assistants(msgs) ==
    IF msgs = <<>> THEN 0
    ELSE (IF Head(msgs).role = "assistant" THEN 1 ELSE 0) + Assistants(Tail(msgs))

RECURSIVE StoredAssistants(_)
StoredAssistants(convs) ==
    IF convs = <<>> THEN 0
    ELSE Assistants(Head(convs).messages) + StoredAssistants(Tail(convs))

\* The history a send of the running class-based client goes to.
History ==
    IF client = "app" THEN messages
    ELSE conversations[IndexOf(conversations, currentConversationId[1])].messages

\* A step that starts a call; a step that appends an assistant message.
C3_UserBeforeCall ==
    (Len(calls') > Len(calls))
        => /\ Len(History') = Len(History) + 1
           /\ History'[Len(History')].role = "user"
           /\ SubSeq(History', 1, Len(History)) = History

C3_AssistantAfterResolve ==
    (Assistants(messages') + StoredAssistants(conversations')
        > Assistants(messages) + StoredAssistants(conversations))
        => Len(calls') < Len(calls)

\* C3: in the store client and in app.js, the step that starts a provider
\* call has appended the user message to the history, and an assistant
\* message is appended only by the step in which a call resolves - never
\* while that call is still outstanding.
C3_MessageOrder == [][C3_UserBeforeCall /\ C3_AssistantAfterResolve]_vars

C3_Witness ==
    /\ client = "store" /\ calls = <<>>
    /\ \E c \in 1..Len(conversations) :
          /\ Len(conversations[c].messages) = 2
          /\ conversations[c].messages[1].role = "user"
          /\ conversations[c].messages[2].role = "assistant"

\* C4: a sendMessage with empty or whitespace-only input changes nothing -
\* no message, no title or timestamp, not isLoading, not the persisted store,
\* no call, not even the status - also while a call is outstanding and also
\* without an API key.
C4_EmptyInputIgnored ==
    [][ \A input \in InputValues :
          (Blank(input) /\ ClassSendMessage(input))
             => (last' = "send:empty" /\ UNCHANGED <<SendState, status, now>>) ]_vars

C4_Witness ==
    client = "store" /\ last = "send:empty" /\ isLoading /\ apiKey = <<>>

\* sendMessage of a client with several conversations, called with this input.
ConvSendMessage(input) == StoreSendMessage(input) \/ SidebarSendMessage(input)

\* C5: a sendMessage with non-empty text, no send in flight and an empty API
\* key is aborted before any mutation: no message appended anywhere, no
\* conversation created or retitled, isLoading still false, no call made, and
\* the status shows an error.
C5_MissingKeyAborts ==
    [][ \A input \in InputValues :
          (~Blank(input) /\ ~isLoading /\ apiKey = <<>> /\ ConvSendMessage(input))
             => /\ UNCHANGED <<SendState, chats, currentChatId, timers, now>>
                /\ ~isLoading'
                /\ status'.state = "error" ]_vars

C5_Witness ==
    /\ client = "sidebar" /\ last = "send:nokey"
    /\ chats = <<>> /\ currentChatId = None /\ status.state = "error"

\* C6: in the store client, when the provider call of an accepted send
\* fails, the conversation's stored messages end with an assistant message
\* 'Error: ' + the error's message, and the persisted copy has it too.
C6_ErrorInTranscript ==
    [][ \A i \in 1..Len(calls), r \in Responses :
          LET res == callOpenAI(r)
              held == calls[i].conv
              c == IndexOf(conversations, held[1])
          IN (StoreResolve(i, r) /\ res.threw /\ held # None)
             => /\ conversations'[c].messages =
                      Append(conversations[c].messages,
                             Msg("assistant", ErrorText(res.text)))
                /\ storage'.conversations = Some(conversations') ]_vars

\* Every provider call eventually resolves or rejects.
ClassResolve ==
    \E i \in 1..Len(calls), r \in Responses : AppResolve(i, r) \/ StoreResolve(i, r)

LiveClass == SpecClass /\ WF_vars(ClassResolve)

\* A non-blank send with an API key while isLoading is false.
C7_AcceptedWhenIdle ==
    \A input \in InputValues :
        (~Blank(input) /\ ~isLoading /\ apiKey # <<>> /\ ClassSendMessage(input))
            => (isLoading' /\ Len(calls') = Len(calls) + 1)

\* C7: if every provider call eventually resolves or rejects, isLoading is
\* eventually false again after every accepted send, whatever the outcome of
\* the call; isLoading is never true without a call outstanding; and a send
\* made once isLoading is false again is accepted.
C7_LoadingEnds ==
    /\ [](isLoading => calls # <<>>)
    /\ (isLoading ~> ~isLoading)
    /\ [][C7_AcceptedWhenIdle]_vars

C7_Witness ==
    /\ client = "app" /\ ~isLoading /\ calls = <<>>
    /\ status = Status("error", ErrorText(<<"Failed to fetch">>))
    /\ Len(messages) = 2

\* C8: in the store client, after init and after every operation,
\* currentConversationId is the id of a conversation in this.conversations.
C8_CurrentExists ==
    /\ currentConversationId # None
    /\ HasConv(conversations, currentConversationId[1])

C8_Witness ==
    /\ client = "store"
    /\ ~HasConv(conversations, ConvId(1))
    /\ currentConversationId = Some(ConvId(2))

\* A confirmed deleteConversation in the store; a deleteChat in the sidebar.
C9_StoreDelete ==
    \A c \in 1..Len(conversations) :
        LET id == conversations[c].id IN
        StoreDeleteConversation(id, TRUE)
            => IF Some(id) = currentConversationId
               THEN (Len(conversations) > 1)
                        => /\ currentConversationId' # None
                           /\ currentConversationId' # Some(id)
                           /\ HasConv(conversations', currentConversationId'[1])
               ELSE currentConversationId' = currentConversationId

C9_SidebarDelete ==
    \A c \in 1..Len(chats) :
        LET id == chats[c].id IN
        SidebarDeleteChat(id)
            => IF Some(id) = currentChatId
               THEN (Len(chats) > 1)
                        => /\ currentChatId' # None
                           /\ currentChatId' # Some(id)
                           /\ FindChat(chats', currentChatId'[1]) # 0
               ELSE currentChatId' = currentChatId

\* C9: deleting the current conversation while another one exists leaves
\* the pointer at the id of a conversation that still exists, not at the
\* deleted id; deleting another conversation leaves the pointer unchanged.
C9_DeleteRepoints == [][C9_StoreDelete /\ C9_SidebarDelete]_vars

\* createNewConversation adds an entry to this.conversations.
C10_NoOverwrite ==
    StoreNewConversation => Len(conversations') = Len(conversations) + 1

\* C10: two conversations created in one store get distinct ids, also when
\* both creations read the same clock value: creating one never overwrites
\* an existing conversation and never gives two list entries one id.
C10_DistinctIds ==
    /\ [](DistinctChatIds(chats))
    /\ [][C10_NoOverwrite]_vars

\* The titles the title editor can give.  No derived title and no sentinel
\* is among them, so a conversation carrying one has been renamed.
RenamedTitles == { TrimEnd(TrimStart(input)) : input \in TitleInputs } \ { <<>> }

\* C11: once a conversation of the store has been renamed through the title
\* editor, no later sendMessage changes its title - also when the rename came
\* before the first message or the chat was cleared in between.
C11_RenameSurvivesSend ==
    [][ \A input \in InputValues :
          StoreSendMessage(input)
             => \A c \in 1..Len(conversations) :
                    (conversations[c].title \in RenamedTitles)
                       => (conversations'[c].title = conversations[c].title) ]_vars

\* The title the first message gives: the message itself up to TitleMax
\* characters, else its first TitleMax characters and an ellipsis.
ExpectedTitle(message) ==
    IF Len(message) <= TitleMax THEN message
    ELSE SubSeq(message, 1, TitleMax) \o <<".", ".", ".">>

\* An accepted send of the store in a conversation that holds no user
\* message and still has the sentinel title.
C12_StoreFirstMessage ==
    \A input \in InputValues :
        LET cur == IndexOf(conversations, currentConversationId[1]) IN
        (/\ StoreSendMessage(input)
         /\ Len(calls') > Len(calls)
         /\ CountUser(conversations[cur].messages) = 0
         /\ conversations[cur].title = SentinelTitle)
            => conversations'[cur].title = ExpectedTitle(TrimEnd(TrimStart(input)))

\* The same for the sidebar's chats.
C12_SidebarFirstMessage ==
    \A input \in InputValues :
        LET cur == FindChat(chats, currentChatId[1]) IN
        (/\ SidebarSendMessage(input)
         /\ Len(calls') > Len(calls)
         /\ CountUser(chats[cur].messages) = 0
         /\ chats[cur].title = NewChatTitle)
            => chats'[cur].title = ExpectedTitle(TrimEnd(TrimStart(input)))

\* C12: the first user message sent in a conversation whose title is still
\* the sentinel makes the title the trimmed message if it has at most 50
\* characters, else its first 50 characters followed by '...' (store
\* sendMessage and sidebar updateChatTitle).
C12_FirstMessageTitles ==
    [][C12_StoreFirstMessage /\ C12_SidebarFirstMessage]_vars

\* C13: in the sidebar a switchChat to an existing chat, its effects
\* included, changes only the current pointer and the displayed messages:
\* updatedAt, title and stored messages of every chat stay as they were.
C13_SwitchChatFrame ==
    [][ \A c \in 1..Len(chats) :
          SidebarSwitchChat(chats[c].id)
             => /\ Len(chats') = Len(chats)
                /\ \A k \in 1..Len(chats) :
                      /\ chats'[k].updatedAt = chats[k].updatedAt
                      /\ chats'[k].title = chats[k].title
                      /\ chats'[k].messages = chats[k].messages ]_vars

\* Two lists hold the same conversations: ids, titles, message contents
\* and order.
SameConversations(a, b) ==
    /\ Len(a) = Len(b)
    /\ \A k \in 1..Len(a) :
          /\ a[k].id = b[k].id
          /\ a[k].title = b[k].title
          /\ a[k].messages = b[k].messages

\* C14: in the clients that keep 'pro_chat_history' a page reload restores
\* the conversations (ids, titles, message contents, order) and the current
\* conversation the client had just before the reload; a deleted
\* conversation does not come back.
C14_ReloadRestores ==
    [][ (client \in HistoryClients /\ SidebarReload)
           => /\ SameConversations(chats', chats)
              /\ currentChatId' = currentChatId ]_vars

\* C15: in the store, between any two of its methods and while a call is
\* outstanding, the persisted 'conversations' record is this.conversations
\* and the persisted 'current_conversation_id' is this.currentConversationId.
C15_WrittenThrough ==
    (client = "store")
        => /\ storage.conversations # None
           /\ parseConversations(storage.conversations[1]) = conversations
           /\ storage.current_conversation_id = currentConversationId

\* A call is outstanding for a conversation that has since been renamed and
\* is no longer the current one.
C15_Witness ==
    /\ client = "store"
    /\ \E i \in 1..Len(calls), c \in 1..Len(conversations) :
          /\ calls[i].conv = Some(conversations[c].id)
          /\ calls[i].conv # currentConversationId
          /\ conversations[c].title \in RenamedTitles
          /\ conversations[c].messages # <<>>
    /\ C15_WrittenThrough

\* sendMessage of a client that always sends the whole history.
PlainSendMessage(input) == AppSendMessage(input) \/ MultiSendMessage(input)

\* C16: under the full-history policy the messages list of the outgoing
\* request is the system prompt, then the messages stored before the send
\* in append order, then the new user message, which occurs exactly once
\* (src/app.js callOpenAI and the multi-provider callAI).
C16_RequestIsHistoryPlusMessage ==
    [][ \A input \in InputValues :
          (PlainSendMessage(input) /\ Len(calls') > Len(calls))
             => calls'[Len(calls')].request =
                    <<SystemPrompt>> \o RoleAndContent(messages)
                        \o <<Msg("user", TrimEnd(TrimStart(input)))>> ]_vars

Listing(m) ==
    { i \in 1..Len(providers) :
        \E k \in 1..Len(providers[i].models) : providers[i].models[k] = m }

\* C18: in the multi-provider client a send with a configured model that no
\* provider lists issues no fetch: the unknown-model failure is raised and
\* reported, and no call is outstanding afterwards that was not before.
C18_UnknownModelNoFetch ==
    [][ \A input \in InputValues :
          (MultiSendMessage(input) /\ Listing(model) = {})
             => /\ calls' = calls
                /\ (messages' # messages)
                      => status' = Status("error", <<"Error: ", "Unknown model: ", model>>) ]_vars

\* A send with an unlisted model has just failed.
C18_Witness ==
    /\ client = "multi"
    /\ Listing(model) = {}
    /\ apiKey # <<>>
    /\ status = Status("error", <<"Error: ", "Unknown model: ", model>>)
    /\ calls = <<>>

\* C19: in the multi-provider client a send that fails because the model is
\* unknown leaves the message history as it was: neither the user message
\* nor an assistant message is appended.
C19_UnknownModelKeepsHistory ==
    [][ \A input \in InputValues :
          (MultiSendMessage(input) /\ Listing(model) = {})
             => messages' = messages ]_vars

\* The key of the first provider, in registration order, that lists the model.
FirstListing(m) == providers[CHOOSE i \in Listing(m) : \A j \in Listing(m) : i <= j].key

\* C20: getProviderForModel(model) gives the first provider in registration
\* order whose models list holds the model exactly (case-sensitive), and
\* fails with the unknown-model error exactly when no provider lists it,
\* whatever else the client's state is.
C20_LookupIsFirstExactMatch ==
    [][ \A input \in InputValues :
          (MultiSendMessage(input) /\ last' = Done)
             => IF Listing(model) = {}
                THEN /\ calls' = calls
                     /\ messages'[Len(messages')] =
                            Msg("assistant", <<"Error: ", "Unknown model: ", model>>)
                ELSE /\ Len(calls') = Len(calls) + 1
                     /\ calls'[Len(calls')].provider = FirstListing(model) ]_vars

\* A call is outstanding to the last provider of the table, for its model.
C20_Witness ==
    /\ client = "multi"
    /\ calls # <<>>
    /\ calls[1].provider = providers[Len(providers)].key
    /\ model = "gemini-1.5-flash"

\* The body is the error envelope of the variant the call went to.
EnvelopeMatches(type, body) ==
    \/ type \in {"openai-compatible", "anthropic", "gemini"} /\ body = "error_envelope"
    \/ type = "qwen" /\ body = "qwen_envelope"
    \/ type = "minimax" /\ body = "minimax_envelope"

\* C21: for every non-2xx response, whatever its body, the error reported
\* is the provider's message when the body is the variant's envelope and
\* otherwise the generic message naming the HTTP status; decoding raises no
\* other exception.
C21_ErrorDecoded ==
    [][ \A i \in 1..Len(calls), r \in ErrorResponses :
          (client = "multi" /\ MultiResolve(i, r))
             => status'.text =
                    (IF EnvelopeMatches(calls[i].type, r.body)
                     THEN <<"Error: ", "rate limited">>
                     ELSE <<"Error: ", "API request failed with status ", r.status>>) ]_vars

\* C22: after a saveSettings of a class-based client the persisted API key
\* is the in-memory one, for every input including an empty key, so that a
\* reload brings back the settings the save left in effect.
C22_SettingsSavedWhole ==
    [][ \A input \in KeyInputs :
          (AppSaveSettings(input) \/ StoreSaveSettings(input))
             => apiKey' = (IF storage'.openai_api_key # None
                           THEN storage'.openai_api_key[1] ELSE <<>>) ]_vars

\* C23: a confirmed clearCurrentChat of the store empties the current
\* conversation's messages and resets its title to 'New Conversation'; the
\* conversation stays in the store, every other conversation and the
\* current pointer are unchanged.
C23_ClearResets ==
    [][ StoreClearCurrentChat(TRUE)
          => LET cur == IndexOf(conversations, currentConversationId[1]) IN
             /\ currentConversationId' = currentConversationId
             /\ Len(conversations') = Len(conversations)
             /\ \A c \in 1..Len(conversations) :
                   IF c = cur
                   THEN /\ conversations'[c].id = conversations[c].id
                        /\ conversations'[c].messages = <<>>
                        /\ conversations'[c].title = SentinelTitle
                   ELSE conversations'[c] = conversations[c] ]_vars

\* C24: after createNewConversation the new conversation is the current
\* one, no conversation has a larger updated timestamp and none comes before
\* it in the rendered list, also when another conversation was updated at
\* the same clock value.
C24_NewIsFirst ==
    [][ StoreNewConversation
          => LET new == IndexOf(conversations', currentConversationId'[1]) IN
             /\ new # 0
             /\ \A c \in 1..Len(conversations') :
                   conversations'[c].updated <= conversations'[new].updated
             /\ sortedConversations(conversations')[1].id = currentConversationId'[1] ]_vars

\* C25: loadConversation(id) for an id that is not in the store changes
\* nothing: the conversations, their contents and the current pointer are
\* afterwards what they were before.
C25_LoadMissingNoChange ==
    [][ \A id \in LoadIds :
          StoreLoadMissing(id)
             => /\ conversations' = conversations
                /\ currentConversationId' = currentConversationId ]_vars

\* C26: a persistence write that fails during sendMessage does not unwind
\* the send: the user message stays in the in-memory conversation, the
\* provider call is still made, and a successful reply is still appended in
\* memory and not replaced by an error.
C26_FailedWriteKeepsSend ==
    [][ /\ \A input \in InputValues, failing \in 1..2 :
             StoreSendMessageQuota(input, failing)
                => LET cur == IndexOf(conversations', currentConversationId[1])
                       msgs == conversations'[cur].messages
                   IN /\ msgs # <<>>
                      /\ msgs[Len(msgs)] = Msg("user", TrimEnd(TrimStart(input)))
                      /\ Len(calls') = Len(calls) + 1
        /\ \A i \in 1..Len(calls), r \in Responses :
             (StoreResolveQuota(i, r) /\ calls[i].conv # None)
                => LET c == IndexOf(conversations', calls[i].conv[1])
                       msgs == conversations'[c].messages
                   IN /\ msgs # <<>>
                      /\ msgs[Len(msgs)] = Msg("assistant", callOpenAI(r).text)
                      /\ status'.kind # "error" ]_vars

\* A send the store accepts: a message that is not blank, no call pending,
\* a key set and a current conversation.
StoreAccepts(input) ==
    /\ ~Blank(input)
    /\ ~isLoading
    /\ apiKey # <<>>
    /\ currentConversationId # None
    /\ HasConv(conversations, currentConversationId[1])

C28_ListOrdered ==
    client = "store" =>
        LET list == sortedConversations(conversations) IN
        /\ Len(list) = Len(conversations)
        /\ \A c \in 1..Len(conversations) :
              Cardinality({ k \in 1..Len(list) : list[k] = conversations[c] }) = 1
        /\ \A j, k \in 1..Len(list) :
              j < k => \/ list[j].updated > list[k].updated
                       \/ /\ list[j].updated = list[k].updated
                          /\ list[j].id[2] < list[k].id[2]

\* A store with two conversations of the same updated timestamp.
C28_Witness ==
    /\ client = "store"
    /\ Len(conversations) = 2
    /\ conversations[1].updated = conversations[2].updated
    /\ conversations[1].id # conversations[2].id

\* C29: the request callAnthropic builds carries the system prompt in the
\* top-level system field, its messages are the user and assistant turns of
\* the history it is given, in their order and with no system entry among
\* them, and max_tokens is present.
C29_AnthropicBody ==
    [][ \A input \in InputValues :
          (/\ MultiSendMessage(input)
           /\ Len(calls') = Len(calls) + 1
           /\ calls'[Len(calls')].type = "anthropic")
             => LET request == calls'[Len(calls')].request
                    body == callAnthropicBody(model, request)
                IN /\ body.system = Some(SystemPrompt.content)
                   /\ body.max_tokens # None
                   /\ body.messages # None
                   /\ \A k \in 1..Len(body.messages[1]) :
                         body.messages[1][k].role \in {"user", "assistant"}
                   /\ request[1].role = "system"
                   /\ body.messages[1] = Tail(request) ]_vars

\* A call to the anthropic provider is pending whose request holds an
\* earlier user turn and the assistant's reply to it.
C29_Witness ==
    /\ client = "multi"
    /\ \E i \in 1..Len(calls) :
          /\ calls[i].type = "anthropic"
          /\ Len(calls[i].request) >= 4
          /\ calls[i].request[2].role = "user"
          /\ calls[i].request[3].role = "assistant"

\* The status bar of src/app.js shows the error of a failed send: the
\* transcript ends with an assistant message and the status is the error
\* status with that message's content as its text.
FailedSendShown ==
    /\ client = "app"
    /\ messages # <<>>
    /\ messages[Len(messages)].role = "assistant"
    /\ status = Status("error", messages[Len(messages)].content)

\* C30: in src/app.js, once a failed send has completed, no event other
\* than a send or a clear (saving the settings, the timer it starts) makes
\* the status text differ from the content of the last assistant message.
C30_ErrorStatusStays ==
    [][ (/\ FailedSendShown
         /\ \/ \E input \in KeyInputs : AppSaveSettings(input)
            \/ AppStatusTimer)
          => FailedSendShown' ]_vars

\* C31: in the sidebar client a send with text, a key and no current chat
\* creates exactly one chat and the retry it schedules sends the message in
\* that chat: the retry creates no further chat, makes one provider call
\* and schedules no further retry.
C31_RetrySendsOnce ==
    [][ SidebarRetryTimer
          => /\ Len(chats') = Len(chats)
             /\ UserMessages(chats') = UserMessages(chats) + 1
             /\ Len(calls') = Len(calls) + 1
             /\ ~timers'.retry ]_vars

\* The chats of the markdown client have ids that differ from each other.
mdDistinctIds == \A i, j \in 1..Len(chats) : i # j => chats[i].id # chats[j].id

\* C32: in the markdown client, when deleteCurrentChat removes the current
\* chat, the new current chat is the chat that followed it in the list if
\* there is one, and the head of the list otherwise.
C32_DeleteRepoints ==
    [][ (/\ MdDeleteCurrentChat
         /\ Len(chats) > 1
         /\ mdDistinctIds
         /\ FindChat(chats, currentChatId[1]) # 0)
          => LET i == FindChat(chats, currentChatId[1]) IN
             /\ Len(chats') = Len(chats) - 1
             /\ currentChatId' = (IF i < Len(chats)
                                  THEN Some(chats[i + 1].id)
                                  ELSE Some(chats'[1].id)) ]_vars

\* C33: in the markdown client the chat list is never empty.
C33_ChatsNeverEmpty == client = "markdown" => Len(chats) >= 1

\* C34: in the markdown client currentChatId is the id of a chat of the
\* list, in the initial state and after every operation.
C34_CurrentIsListed == client = "markdown" => FindChat(chats, currentChatId[1]) # 0

\* C35: in src/app.js the history alternates between user and assistant
\* messages, starting with a user message, and has even length while no
\* send is in flight.
C35_HistoryAlternates ==
    client = "app" =>
        /\ \A k \in 1..Len(messages) :
              messages[k].role = (IF k % 2 = 1 THEN "user" ELSE "assistant")
        /\ (~isLoading => Len(messages) % 2 = 0)

\* The pro-chat window is not visible and the terminal buffer is alive.
NvimHidden ==
    /\ ~(nvim.win # None /\ nvim.winValid)
    /\ nvim.buf # None
    /\ nvim.buf[1] \in nvim.bufs

\* C36: in the Neovim plugin close() leaves the terminal buffer, the job
\* channel and the running process as they are; an open() or toggle() that
\* follows shows that buffer again and launches nothing; open() while the
\* window is visible launches nothing.
C36_CloseKeepsTerminal ==
    [][ /\ NvimClose
            => /\ nvim'.buf = nvim.buf
               /\ nvim'.chan = nvim.chan
               /\ nvim'.bufs = nvim.bufs
               /\ nvim'.jobs = nvim.jobs
               /\ nvim'.launched = nvim.launched
        /\ \A found \in BOOLEAN :
             ((NvimOpen(found) \/ NvimToggle(found)) /\ NvimHidden)
                => /\ nvim'.launched = nvim.launched
                   /\ nvim'.jobs = nvim.jobs
                   /\ nvim'.buf = nvim.buf
                   /\ nvim'.chan = nvim.chan
                   /\ nvim'.win # None
                   /\ nvim'.winValid
                   /\ nvim'.shows = nvim.buf
        /\ \A found \in BOOLEAN :
             (NvimOpen(found) /\ nvim.win # None /\ nvim.winValid)
                => nvim' = nvim ]_vars

\* The window was closed and opened again on the one running terminal.
C36_Witness ==
    /\ client = "nvim"
    /\ nvim.launched = 1
    /\ nvim.windows = 2
    /\ nvim.winValid
    /\ nvim.shows = Some(1)
    /\ nvim.chan = Some(1)
    /\ nvim.jobs = {1}

\* C37: in the Neovim plugin the on_exit callback leaves state.chan,
\* state.buf and state.win nil; while they are nil send_raw delivers no
\* text and warns, and an open() that finds the binary launches a terminal.
C37_ExitClearsState ==
    [][ /\ \A j \in nvim.jobs, exit_code \in {0, 1} :
             NvimJobExit(j, exit_code)
                => /\ nvim'.chan = None
                   /\ nvim'.buf = None
                   /\ nvim'.win = None
        /\ \A text \in NvimTexts :
             (NvimSendRaw(text) /\ nvim.chan = None)
                => /\ nvim'.sent = nvim.sent
                   /\ nvim'.note = "warn:notrunning"
        /\ (NvimOpen(TRUE) /\ nvim.chan = None /\ nvim.buf = None /\ nvim.win = None)
                => /\ nvim'.launched = nvim.launched + 1
                   /\ nvim'.chan = Some(nvim'.launched)
                   /\ nvim'.chan[1] \in nvim'.jobs ]_vars

====
